---- MODULE Spec2Model ----
(***************************************************************************)
(* Model of the S3DX surfboard viewer: the curve evaluator                 *)
(* (bezierEvaluator), the format decoder (s3dxParser), the mesh generator  *)
(* dispatch (boardcadMeshGenerator) and the application shell that ties    *)
(* file intake, decoding and mesh generation together.                     *)
(*                                                                         *)
(* JavaScript numbers are modelled as exact rationals extended with the    *)
(* IEEE special values NaN, +Infinity and -Infinity, so that a division by *)
(* zero yields what the program yields instead of failing.                 *)
(***************************************************************************)
EXTENDS Integers, Sequences, FiniteSets, TLC

VARIABLES
    call,        \* evaluator / decoder harness: the operation applied last and its arguments
    ret,         \* evaluator / decoder harness: the value that operation returned
    design,      \* App state `design` (README.md:75): Null or a Shape3DDesign
    error,       \* App state `error` (README.md:76): a message, "" when none
    isLoading,   \* FileUpload state `isLoading`
    fileRead,    \* the handleFileRead invocation in flight: position, file, parse result
    sampleLoad,  \* the loadSampleFile invocation started on mount: position and fetched text
    viewer       \* ThreeViewer: the design its effect last ran for, its mesh and its error

vars == <<call, ret, design, error, isLoading, fileRead, sampleLoad, viewer>>

(***************************************************************************)
(* Bounds of the model.                                                    *)
(***************************************************************************)
MaxControlPoints == 4
MaxNumPoints == 5
MaxProfileLen == 3
MaxPolylineLen == 3

(***************************************************************************)
(* Numbers.  [n |-> a, d |-> b] with b > 0 is the rational a/b in lowest   *)
(* terms; d = 0 encodes NaN (n = 0), +Infinity (n = 1), -Infinity (n = -1).*)
(***************************************************************************)
Abs(i) == IF i < 0 THEN -i ELSE i

Sign(i) == IF i < 0 THEN -1 ELSE IF i > 0 THEN 1 ELSE 0

RECURSIVE Gcd(_, _)
Gcd(a, b) == IF b = 0 THEN a ELSE Gcd(b, a % b)

Num(a, b) ==
    IF b = 0 THEN [n |-> Sign(a), d |-> 0]
    ELSE LET s == IF b < 0 THEN -1 ELSE 1
             g == Gcd(Abs(a), Abs(b))
         IN  [n |-> (s * a) \div g, d |-> (s * b) \div g]

Int2Num(i) == [n |-> i, d |-> 1]

NaN == [n |-> 0, d |-> 0]

IsNaN(a) == a.d = 0 /\ a.n = 0

IsFinite(a) == a.d > 0

Neg(a) == [n |-> -a.n, d |-> a.d]

Add(a, b) ==
    IF a.d = 0 /\ b.d = 0
    THEN (IF a.n = b.n THEN a ELSE NaN)
    ELSE IF a.d = 0 THEN a
    ELSE IF b.d = 0 THEN b
    ELSE LET g == Gcd(a.d, b.d)
         IN  Num(a.n * (b.d \div g) + b.n * (a.d \div g), (a.d \div g) * b.d)

Sub(a, b) == Add(a, Neg(b))

Mul(a, b) ==
    IF a.d = 0 \/ b.d = 0 \/ a.n = 0 \/ b.n = 0 THEN Num(a.n * b.n, a.d * b.d)
    ELSE LET g1 == Gcd(Abs(a.n), b.d)
             g2 == Gcd(Abs(b.n), a.d)
         IN  Num((a.n \div g1) * (b.n \div g2), (a.d \div g2) * (b.d \div g1))

Div(a, b) ==
    IF b.d = 0
    THEN (IF a.d = 0 THEN NaN ELSE IF b.n = 0 THEN NaN ELSE Int2Num(0))
    ELSE Mul(a, IF b.n = 0 THEN [n |-> 1, d |-> 0] ELSE Num(b.d, b.n))

\* a < b, a <= b as JavaScript compares numbers: false when either is NaN
Lt(a, b) ==
    /\ ~IsNaN(a)
    /\ ~IsNaN(b)
    /\ IF a.d = 0 /\ b.d = 0 THEN a.n < b.n ELSE
       IF a.d = 0 THEN a.n < 0 ELSE
       IF b.d = 0 THEN b.n > 0 ELSE
       a.n * (b.d \div Gcd(a.d, b.d)) < b.n * (a.d \div Gcd(a.d, b.d))

Le(a, b) ==
    /\ ~IsNaN(a)
    /\ ~IsNaN(b)
    /\ IF a.d = 0 /\ b.d = 0 THEN a.n <= b.n ELSE
       IF a.d = 0 THEN a.n < 0 ELSE
       IF b.d = 0 THEN b.n > 0 ELSE
       a.n * (b.d \div Gcd(a.d, b.d)) <= b.n * (a.d \div Gcd(a.d, b.d))

\* Math.abs
MathAbs(a) == [n |-> Abs(a.n), d |-> a.d]

\* `const v = value; return Body(v)`: the value is computed once
Let(value, Body(_)) == CHOOSE r \in {Body(v) : v \in {value}} : TRUE

\* a lazily described array made into an array of values
asArray(points) == SubSeq(points, 1, Len(points))

\* the least member of a set of indices, 0 when there is none
firstIndex(indices) ==
    IF indices = {} THEN 0 ELSE CHOOSE i \in indices : \A k \in indices : i <= k

(***************************************************************************)
(* Point3D (types/s3dx.ts) and the value of an array slot never assigned.  *)
(***************************************************************************)
Point3D(x, y, z, u, color) == [x |-> x, y |-> y, z |-> z, u |-> u, color |-> color]

Undefined == [undefined |-> TRUE]

Null == [null |-> TRUE]

(***************************************************************************)
(* BezierEvaluator (bezierEvaluator.ts).                                   *)
(***************************************************************************)
\* one coordinate of evaluateCubicBezier
cubicBlend(a0, a1, a2, a3, t) ==
    LET invT == Sub(Int2Num(1), t)
        t2 == Mul(t, t)
        t3 == Mul(t2, t)
        invT2 == Mul(invT, invT)
        invT3 == Mul(invT2, invT)
    IN  Add(Add(Add(Mul(invT3, a0),
                    Mul(Mul(Mul(Int2Num(3), invT2), t), a1)),
                Mul(Mul(Mul(Int2Num(3), invT), t2), a2)),
            Mul(t3, a3))

evaluateCubicBezier(p0, p1, p2, p3, t) ==
    [x |-> cubicBlend(p0.x, p1.x, p2.x, p3.x, t),
     y |-> cubicBlend(p0.y, p1.y, p2.y, p3.y, t),
     z |-> cubicBlend(p0.z, p1.z, p2.z, p3.z, t),
     u |-> cubicBlend(p0.u, p1.u, p2.u, p3.u, t),
     color |-> p0.color]

\* one coordinate of evaluateQuadraticBezier, with twoInvTt = 2 (1 - t) t left out
quadraticBlend_missingFactor(a0, a1, a2, t) ==
    LET invT == Sub(Int2Num(1), t)
        invT2 == Mul(invT, invT)
        t2 == Mul(t, t)
        twoInvTt == Mul(invT, t)
    IN  Add(Add(Mul(invT2, a0), Mul(twoInvTt, a1)), Mul(t2, a2))

\* one coordinate of evaluateQuadraticBezier
quadraticBlend(a0, a1, a2, t) ==
    LET invT == Sub(Int2Num(1), t)
        invT2 == Mul(invT, invT)
        t2 == Mul(t, t)
        twoInvTt == Mul(Mul(Int2Num(2), invT), t)
    IN  Add(Add(Mul(invT2, a0), Mul(twoInvTt, a1)), Mul(t2, a2))

evaluateQuadraticBezier(p0, p1, p2, t) ==
    [x |-> quadraticBlend(p0.x, p1.x, p2.x, t),
     y |-> quadraticBlend(p0.y, p1.y, p2.y, t),
     z |-> quadraticBlend(p0.z, p1.z, p2.z, t),
     u |-> quadraticBlend(p0.u, p1.u, p2.u, t),
     color |-> p0.color]

\* one coordinate of evaluateLinear
linearBlend(a0, a1, t) == Add(a0, Mul(t, Sub(a1, a0)))

evaluateLinear(p0, p1, t) ==
    [x |-> linearBlend(p0.x, p1.x, t),
     y |-> linearBlend(p0.y, p1.y, t),
     z |-> linearBlend(p0.z, p1.z, t),
     u |-> linearBlend(p0.u, p1.u, t),
     color |-> p0.color]

\* `new Array(numPoints)`: numPoints slots, none assigned
newArray(numPoints) == [i \in 1..numPoints |-> Undefined]

\* the early return for fewer than 2 control points, returning the unfilled array
degenerateResult_unfilled(numPoints) == newArray(numPoints)

\* the early return for fewer than 2 control points: `return []`
degenerateResult(numPoints) == <<>>

\* segmentPoints without the remainder going to the last segment
segmentPointCount_noRemainder(numPoints, numSegments, seg, pointIdx) ==
    numPoints \div numSegments

\* segmentPoints of segment seg (0-based): floor(numPoints / numSegments), the
\* last segment taking whatever is left of the budget
segmentPointCount(numPoints, numSegments, seg, pointIdx) ==
    IF seg = numSegments - 1 THEN numPoints - pointIdx
    ELSE numPoints \div numSegments

\* localT counted from the second step on, never 0 in a segment of several samples
localParameter_fromOne(j, segmentPoints) ==
    IF segmentPoints > 1 THEN Div(Int2Num(j + 1), Int2Num(segmentPoints))
    ELSE Int2Num(0)

\* localT stepping by 1 / segmentPoints, never reaching 1
localParameter_overCount(j, segmentPoints) ==
    IF segmentPoints > 1 THEN Div(Int2Num(j), Int2Num(segmentPoints))
    ELSE Int2Num(0)

\* localT of sample j in a segment of segmentPoints samples
localParameter(j, segmentPoints) ==
    IF segmentPoints > 1 THEN Div(Int2Num(j), Int2Num(segmentPoints - 1))
    ELSE Int2Num(0)

\* t of sample i in the single-span cases, dividing by numPoints
spanParameter_offByOne(i, numPoints) == Div(Int2Num(i), Int2Num(numPoints))

\* t of sample i in the single-span (quadratic, linear) cases: i / (numPoints - 1)
spanParameter(i, numPoints) == Div(Int2Num(i), Int2Num(numPoints - 1))

\* the segment sample taking its outgoing handle from the first tangent set and
\* its incoming handle from the second
segmentSample_swappedTangents(cp, t1, t2, cubic, seg, localT) ==
    IF cubic
    THEN evaluateCubicBezier(cp[seg + 1], t1[seg + 1], t2[seg + 2], cp[seg + 2], localT)
    ELSE evaluateLinear(cp[seg + 1], cp[seg + 2], localT)

\* the sample of segment seg (0-based) at localT: a cubic through the tangent
\* handles t2[seg], t1[seg + 1] in case 1, a chord in case 4
segmentSample(cp, t1, t2, cubic, seg, localT) ==
    IF cubic
    THEN evaluateCubicBezier(cp[seg + 1], t2[seg + 1], t1[seg + 2], cp[seg + 2], localT)
    ELSE evaluateLinear(cp[seg + 1], cp[seg + 2], localT)

\* the inner loop `for (j ...)` of cases 1 and 4 run from j = 0; acc = [points,
\* pointIdx]: sample j is stored at pointIdx + j until segmentPoints samples are
\* stored or pointIdx reaches numPoints
sampleLoop(cp, t1, t2, cubic, numPoints, seg, segmentPoints, acc) ==
    LET room == numPoints - acc.pointIdx
        stored == IF segmentPoints < room THEN segmentPoints ELSE room
    IN  IF stored <= 0 THEN acc
        ELSE [points |->
                 asArray([k \in 1..Len(acc.points) |->
                    IF k > acc.pointIdx /\ k <= acc.pointIdx + stored
                    THEN segmentSample(cp, t1, t2, cubic, seg,
                                       localParameter(k - 1 - acc.pointIdx, segmentPoints))
                    ELSE acc.points[k]]),
              pointIdx |-> acc.pointIdx + stored]

\* the outer loop `for (seg ...)` of cases 1 and 4
RECURSIVE segmentLoop(_, _, _, _, _, _, _)
segmentLoop(cp, t1, t2, cubic, numPoints, seg, acc) ==
    LET numSegments == Len(cp) - 1 IN
    IF seg >= numSegments THEN acc.points
    ELSE Let(sampleLoop(cp, t1, t2, cubic, numPoints, seg,
                        segmentPointCount(numPoints, numSegments, seg, acc.pointIdx),
                        acc),
             LAMBDA next : segmentLoop(cp, t1, t2, cubic, numPoints, seg + 1, next))

\* the test of case 1 admitting only curves of more than 3 control points, so
\* that the control-point count decides first for 2 and 3 points
cubicCase_aboveThreeOnly(cp, t1, t2) ==
    Len(cp) > 3 /\ Len(t1) >= Len(cp) /\ Len(t2) >= Len(cp)

\* the test of case 1: both tangent polygons at least as long as the control polygon
cubicCase(cp, t1, t2) ==
    Len(cp) >= 2 /\ Len(t1) >= Len(cp) /\ Len(t2) >= Len(cp)

generateBezierPoints(bezier, numPoints) ==
    IF Len(bezier.control_points.points) < 2 THEN degenerateResult(numPoints)
    ELSE
      LET cp == bezier.control_points.points
          t1 == IF Len(bezier.tangents_1.points) > 0 THEN bezier.tangents_1.points ELSE <<>>
          t2 == IF Len(bezier.tangents_2.points) > 0 THEN bezier.tangents_2.points ELSE <<>>
          points == newArray(numPoints)
      IN  IF cubicCase(cp, t1, t2)
          THEN segmentLoop(cp, t1, t2, TRUE, numPoints, 0, [points |-> points, pointIdx |-> 0])
          ELSE IF Len(cp) = 3
          THEN [i \in 1..numPoints |->
                  evaluateQuadraticBezier(cp[1], cp[2], cp[3], spanParameter(i - 1, numPoints))]
          ELSE IF Len(cp) = 2
          THEN [i \in 1..numPoints |->
                  evaluateLinear(cp[1], cp[2], spanParameter(i - 1, numPoints))]
          ELSE IF Len(cp) > 3
          THEN segmentLoop(cp, t1, t2, FALSE, numPoints, 0, [points |-> points, pointIdx |-> 0])
          ELSE <<>>

\* the already-mirrored test demanding that every point has a negative y
hasNegative_every(halfPoints) ==
    \A i \in 1..Len(halfPoints) : Lt(halfPoints[i].y, Num(-1, 1000))

\* `halfPoints.some(pt => pt.y < -0.001)`
hasNegative(halfPoints) ==
    \E i \in 1..Len(halfPoints) : Lt(halfPoints[i].y, Num(-1, 1000))

\* the mirroring that reflects every point, the first one included
mirrorCrossSectionPoints_keepsFirst(halfPoints) ==
    IF Len(halfPoints) = 0 THEN <<>>
    ELSE IF hasNegative(halfPoints) THEN halfPoints
    ELSE halfPoints \o
         [i \in 1..Len(halfPoints) |->
             [halfPoints[Len(halfPoints) - (i - 1)] EXCEPT !.y = Neg(@)]]

mirrorCrossSectionPoints(halfPoints) ==
    IF Len(halfPoints) = 0 THEN <<>>
    ELSE IF hasNegative(halfPoints) THEN halfPoints
    ELSE
      LET startIdx == IF Lt(MathAbs(halfPoints[1].y), Num(1, 1000)) THEN 1 ELSE 0
          numToMirror == Len(halfPoints) - startIdx
      IN  halfPoints \o
          [i \in 1..numToMirror |->
              [halfPoints[Len(halfPoints) - (i - 1)] EXCEPT !.y = Neg(@)]]

\* the loop of interpolateZAtX: the first i (1-based) with
\* points[i].x <= x <= points[i + 1].x, or 0 when the loop finds none
firstBracket(points, x, i) ==
    firstIndex({k \in i..(Len(points) - 1) : Le(points[k].x, x) /\ Le(x, points[k + 1].x)})

\* the value outside the range, without the test against the first sample
outsideRange_alwaysLast(points, x) == points[Len(points)].z

\* lines 217-221: the value returned when no segment brackets x
outsideRange(points, x) ==
    IF Lt(x, points[1].x) THEN points[1].z ELSE points[Len(points)].z

interpolateZAtX(points, x) ==
    IF Len(points) = 0 THEN Int2Num(0)
    ELSE
      Let(firstBracket(points, x, 1),
          LAMBDA i :
              IF i > 0
              THEN Let(Div(Sub(x, points[i].x), Sub(points[i + 1].x, points[i].x)),
                       LAMBDA t : Add(Mul(points[i].z, Sub(Int2Num(1), t)),
                                      Mul(points[i + 1].z, t)))
              ELSE outsideRange(points, x))

(***************************************************************************)
(* The parsed document (the DOM that DOMParser hands to S3DXParser) is the *)
(* sequence of its elements in document order.  An element is              *)
(* [tag, text, size]: its tag name, the characters of its own text node    *)
(* and the number of its descendants, which are the elements that follow   *)
(* it.  Text is a sequence of one-character strings.  A node is the        *)
(* position of an element; position 0 is the document itself.              *)
(***************************************************************************)
Element(tag, text, size) == [tag |-> tag, text |-> text, size |-> size]

Node(index) == [index |-> index]

DocumentNode == Node(0)

\* the positions of the descendants of a node
descendants(doc, node) ==
    IF node.index = 0 THEN 1..Len(doc)
    ELSE (node.index + 1)..(node.index + doc[node.index].size)

\* whether the element at position k has an ancestor with the tag name
hasAncestor(doc, k, tag) ==
    \E j \in 1..(k - 1) : doc[j].tag = tag /\ k <= j + doc[j].size

\* the first of a set of positions as a node; Null when the set is empty
firstMatch(positions) ==
    Let(positions,
        LAMBDA matches :
            IF matches = {} THEN Null
            ELSE Node(CHOOSE k \in matches : \A j \in matches : k <= j))

\* node.querySelector(tag): the first descendant with that tag name
querySelector(doc, node, tag) ==
    firstMatch({k \in descendants(doc, node) : doc[k].tag = tag})

\* node.querySelector('ancestorTag tag'): the first descendant with that tag name
\* that has an ancestor named ancestorTag
querySelectorIn(doc, node, ancestorTag, tag) ==
    firstMatch({k \in descendants(doc, node) :
                  doc[k].tag = tag /\ hasAncestor(doc, k, ancestorTag)})

\* node.querySelectorAll(tag): the descendants with that tag name, in order
querySelectorAll(doc, node, tag) ==
    SelectSeq([k \in 1..Cardinality(descendants(doc, node)) |-> Node(node.index + k)],
              LAMBDA d : doc[d.index].tag = tag)

\* pointEl.closest(tag): whether the element or an ancestor has that tag name
hasClosest(doc, node, tag) ==
    doc[node.index].tag = tag \/ hasAncestor(doc, node.index, tag)

\* element.children from position k on: the child elements up to position last
RECURSIVE childrenFrom(_, _, _)
childrenFrom(doc, k, last) ==
    IF k > last THEN <<>>
    ELSE <<Node(k)>> \o Let(k + doc[k].size + 1,
                            LAMBDA next : childrenFrom(doc, next, last))

children(doc, node) ==
    childrenFrom(doc, node.index + 1, node.index + doc[node.index].size)

\* the text of the elements at positions k..last, in order
RECURSIVE textFrom(_, _, _)
textFrom(doc, k, last) ==
    IF k > last THEN <<>> ELSE doc[k].text \o textFrom(doc, k + 1, last)

\* Node.textContent: the text of the element and of its descendants
textContent(doc, node) == textFrom(doc, node.index, node.index + doc[node.index].size)

(***************************************************************************)
(* Text to number conversions.                                             *)
(***************************************************************************)
WhiteSpace == {" ", "\t", "\n", "\r"}

Digits == <<"0", "1", "2", "3", "4", "5", "6", "7", "8", "9">>

IsDigit(c) == \E k \in 1..10 : Digits[k] = c

DigitValue(c) == (CHOOSE k \in 1..10 : Digits[k] = c) - 1

RECURSIVE trimStart(_)
trimStart(s) ==
    Let(s, LAMBDA text :
        IF text # <<>> /\ Head(text) \in WhiteSpace THEN trimStart(Tail(text)) ELSE text)

RECURSIVE trimEnd(_)
trimEnd(s) ==
    IF s # <<>> /\ s[Len(s)] \in WhiteSpace THEN trimEnd(SubSeq(s, 1, Len(s) - 1)) ELSE s

\* String.prototype.trim
trim(s) == trimEnd(trimStart(s))

\* the number of digits s starts with
RECURSIVE digitPrefix(_)
digitPrefix(s) == IF s # <<>> /\ IsDigit(Head(s)) THEN 1 + digitPrefix(Tail(s)) ELSE 0

\* the value of the digit string s, continuing from acc
RECURSIVE digitsValue(_, _)
digitsValue(s, acc) ==
    IF s = <<>> THEN acc ELSE digitsValue(Tail(s), 10 * acc + DigitValue(Head(s)))

RECURSIVE Pow10(_)
Pow10(k) == IF k = 0 THEN 1 ELSE 10 * Pow10(k - 1)

\* the global parseFloat on decimal literals without exponent: leading white
\* space, a sign, digits, a fraction; what follows is ignored; NaN without a digit
jsParseFloat(s) ==
    Let(trimStart(s), LAMBDA t :
    LET negative == t # <<>> /\ Head(t) = "-"
        body == IF t # <<>> /\ Head(t) \in {"-", "+"} THEN Tail(t) ELSE t
        ni == digitPrefix(body)
        rest == SubSeq(body, ni + 1, Len(body))
        nf == IF rest # <<>> /\ Head(rest) = "." THEN digitPrefix(Tail(rest)) ELSE 0
        mantissa == digitsValue(SubSeq(rest, 2, nf + 1),
                                digitsValue(SubSeq(body, 1, ni), 0))
    IN  IF ni + nf = 0 THEN NaN
        ELSE Num(IF negative THEN -mantissa ELSE mantissa, Pow10(nf)))

\* the global parseInt(s, 10): leading white space, a sign, digits; NaN (here
\* Null) without a digit
jsParseInt(s) ==
    Let(trimStart(s), LAMBDA t :
    LET negative == t # <<>> /\ Head(t) = "-"
        body == IF t # <<>> /\ Head(t) \in {"-", "+"} THEN Tail(t) ELSE t
        ni == digitPrefix(body)
        value == digitsValue(SubSeq(body, 1, ni), 0)
    IN  IF ni = 0 THEN Null ELSE [int |-> IF negative THEN -value ELSE value])

(***************************************************************************)
(* S3DXParser (s3dxParser.ts).                                             *)
(***************************************************************************)
parseFloat(s) ==
    Let(jsParseFloat(s), LAMBDA val : IF IsNaN(val) THEN Int2Num(0) ELSE val)

parseInt(s) == Let(jsParseInt(s), LAMBDA val : IF val = Null THEN 0 ELSE val.int)

getElementText(doc, element) == Let(textContent(doc, element), LAMBDA text : trim(text))

getChildText(doc, parent, tagName) ==
    Let(querySelector(doc, parent, tagName),
        LAMBDA child : IF child # Null THEN getElementText(doc, child) ELSE <<>>)

parsePoint3D(doc, element) ==
    [x |-> parseFloat(getChildText(doc, element, "x")),
     y |-> parseFloat(getChildText(doc, element, "y")),
     z |-> parseFloat(getChildText(doc, element, "z")),
     u |-> parseFloat(getChildText(doc, element, "u")),
     color |-> parseInt(getChildText(doc, element, "color"))]

ZeroPoint == Point3D(Int2Num(0), Int2Num(0), Int2Num(0), Int2Num(0), 0)

\* the Point3d elements of a polygon that are not inside its Symmetry_center
polygonPoints(doc, element) ==
    SelectSeq(querySelectorAll(doc, element, "Point3d"),
              LAMBDA pointEl : ~hasClosest(doc, pointEl, "Symmetry_center"))

parsePolygon3D(doc, element) ==
    [nb_of_points |-> parseInt(getChildText(doc, element, "Nb_of_points")),
     open |-> parseInt(getChildText(doc, element, "Open")),
     symmetry |-> parseInt(getChildText(doc, element, "Symmetry")),
     symmetry_center |->
        Let(querySelectorIn(doc, element, "Symmetry_center", "Point3d"),
            LAMBDA symmetryCenterEl :
                IF symmetryCenterEl # Null THEN parsePoint3D(doc, symmetryCenterEl)
                ELSE ZeroPoint),
     plan |-> parseInt(getChildText(doc, element, "Plan")),
     points |-> Let(polygonPoints(doc, element),
                    LAMBDA kept : [k \in 1..Len(kept) |-> parsePoint3D(doc, kept[k])])]

emptyPolygon ==
    [nb_of_points |-> 0, open |-> 0, symmetry |-> 0, symmetry_center |-> ZeroPoint,
     plan |-> 0, points |-> <<>>]

\* the loops probing `${family}0`, `${family}1`, ... until the first missing index
RECURSIVE indexedValues(_, _, _, _)
indexedValues(doc, element, family, i) ==
    Let(querySelector(doc, element, family \o ToString(i)),
        LAMBDA el :
            IF el = Null THEN <<>>
            ELSE <<parseInt(getElementText(doc, el))>>
                 \o Let(i + 1, LAMBDA next : indexedValues(doc, element, family, next)))

polygonOr(doc, element, holder) ==
    Let(querySelectorIn(doc, element, holder, "Polygone3d"),
        LAMBDA el : IF el # Null THEN parsePolygon3D(doc, el) ELSE emptyPolygon)

parseBezier3D(doc, element) ==
    [name |-> getChildText(doc, element, "Name"),
     degree |-> parseInt(getChildText(doc, element, "Degree")),
     open |-> parseInt(getChildText(doc, element, "Open")),
     symmetry |-> parseInt(getChildText(doc, element, "Symmetry")),
     plan |-> parseInt(getChildText(doc, element, "Plan")),
     control_points |-> polygonOr(doc, element, "Control_points"),
     tangents_1 |-> polygonOr(doc, element, "Tangents_1"),
     tangents_2 |-> polygonOr(doc, element, "Tangents_2"),
     tangents_m |-> polygonOr(doc, element, "Tangents_m"),
     control_type_points |-> indexedValues(doc, element, "Control_type_point_", 0),
     tangent_type_points |-> indexedValues(doc, element, "Tangent_type_point_", 0)]

emptyBezier ==
    [name |-> <<>>, degree |-> 0, open |-> 0, symmetry |-> 0, plan |-> 0,
     control_points |-> emptyPolygon, tangents_1 |-> emptyPolygon,
     tangents_2 |-> emptyPolygon, tangents_m |-> emptyPolygon,
     control_type_points |-> <<>>, tangent_type_points |-> <<>>]

parseCouple(doc, element) ==
    [dessus |-> parseInt(getChildText(doc, element, "Dessus")),
     dessous |-> parseInt(getChildText(doc, element, "Dessous")),
     displayed |-> parseInt(getChildText(doc, element, "Displayed")),
     bezier |-> Let(querySelector(doc, element, "Bezier3d"),
                    LAMBDA bezierEl :
                        IF bezierEl # Null THEN parseBezier3D(doc, bezierEl)
                        ELSE emptyBezier)]

\* "MS Sans Serif"
MSSansSerif == <<"M", "S", " ", "S", "a", "n", "s", " ", "S", "e", "r", "i", "f">>

PointU(x, y, z) == Point3D(x, y, z, Int2Num(-1), 0)

defaultView ==
    [version |-> Num(12, 10), wh |-> Int2Num(865), ww |-> Int2Num(1896),
     wox |-> Int2Num(0), woy |-> Int2Num(0), uh |-> Int2Num(0), uw |-> Int2Num(0),
     uxmin |-> Int2Num(0), uymin |-> Int2Num(0), cxy |-> Int2Num(0),
     mrgx |-> Int2Num(0), mrgy |-> Int2Num(0), police |-> MSSansSerif,
     over_sample |-> 1, grid |-> Int2Num(10)]

parseView(doc, element) ==
    [version |-> parseFloat(getChildText(doc, element, "Version")),
     wh |-> parseFloat(getChildText(doc, element, "Wh")),
     ww |-> parseFloat(getChildText(doc, element, "Ww")),
     wox |-> parseFloat(getChildText(doc, element, "Wox")),
     woy |-> parseFloat(getChildText(doc, element, "Woy")),
     uh |-> parseFloat(getChildText(doc, element, "Uh")),
     uw |-> parseFloat(getChildText(doc, element, "Uw")),
     uxmin |-> parseFloat(getChildText(doc, element, "Uxmin")),
     uymin |-> parseFloat(getChildText(doc, element, "Uymin")),
     cxy |-> parseFloat(getChildText(doc, element, "Cxy")),
     mrgx |-> parseFloat(getChildText(doc, element, "Mrgx")),
     mrgy |-> parseFloat(getChildText(doc, element, "Mrgy")),
     police |-> getChildText(doc, element, "Police"),
     over_sample |-> parseInt(getChildText(doc, element, "OverSample")),
     grid |-> parseFloat(getChildText(doc, element, "Grid"))]

pointOr(doc, element, holder, default) ==
    Let(querySelectorIn(doc, element, holder, "Point3d"),
        LAMBDA el : IF el # Null THEN parsePoint3D(doc, el) ELSE default)

parseCamera(doc, element) ==
    [version |-> parseFloat(getChildText(doc, element, "Version")),
     alpha |-> parseFloat(getChildText(doc, element, "Alpha")),
     dim_obj |-> parseFloat(getChildText(doc, element, "DimObj")),
     crot |-> pointOr(doc, element, "Crot", PointU(Int2Num(0), Int2Num(0), Int2Num(0))),
     cvis |-> pointOr(doc, element, "Cvis", PointU(Int2Num(0), Int2Num(0), Int2Num(0))),
     ccam |-> pointOr(doc, element, "Ccam",
                      PointU(Int2Num(0), Int2Num(0), Num(-36195, 100))),
     oy |-> pointOr(doc, element, "Oy", PointU(Int2Num(0), Int2Num(1), Int2Num(0))),
     ur |-> pointOr(doc, element, "Ur", PointU(Int2Num(0), Int2Num(0), Int2Num(1))),
     view |-> Let(querySelector(doc, element, "View"),
                  LAMBDA viewEl :
                      IF viewEl # Null THEN parseView(doc, viewEl) ELSE defaultView)]

parseLighting(doc, element) ==
    [version |-> parseFloat(getChildText(doc, element, "Version")),
     color |-> parseInt(getChildText(doc, element, "Color")),
     color_spot |-> parseInt(getChildText(doc, element, "ColorSpot")),
     intensity |-> parseFloat(getChildText(doc, element, "Intensity")),
     intensity2 |-> parseFloat(getChildText(doc, element, "Intensity2")),
     intensity_ambient |-> parseFloat(getChildText(doc, element, "IntensityAmbient")),
     intensity_spec |-> parseFloat(getChildText(doc, element, "IntensitySpec")),
     ecl |-> pointOr(doc, element, "Ecl",
                     PointU(Int2Num(0), Num(-208287, 100), Num(-208287, 100)))]

defaultLighting ==
    [version |-> Int2Num(9),
     ecl |-> PointU(Int2Num(0), Num(-208287, 100), Num(-208287, 100)),
     color |-> 16777215, color_spot |-> 16777215,
     intensity |-> Num(8, 10), intensity2 |-> Num(625, 1000),
     intensity_ambient |-> Num(475, 1000), intensity_spec |-> Int2Num(1)]

defaultCamera ==
    [version |-> Num(12, 10), alpha |-> Int2Num(0), dim_obj |-> Num(208287, 1000),
     crot |-> PointU(Int2Num(0), Int2Num(0), Int2Num(0)),
     cvis |-> PointU(Int2Num(0), Int2Num(0), Int2Num(0)),
     ccam |-> PointU(Int2Num(0), Int2Num(0), Num(-36195, 100)),
     oy |-> PointU(Int2Num(0), Int2Num(1), Int2Num(0)),
     ur |-> PointU(Int2Num(0), Int2Num(0), Int2Num(1)),
     view |-> defaultView]

parseScene(doc, element) ==
    [version |-> parseFloat(getChildText(doc, element, "Version")),
     background_color |-> parseInt(getChildText(doc, element, "Background_color")),
     reflexion_map |-> getChildText(doc, element, "ReflexionMap"),
     display_sky_box |-> parseInt(getChildText(doc, element, "DisplaySkyBox")),
     lighting |-> Let(querySelector(doc, element, "Lighting"),
                      LAMBDA lightingEl :
                          IF lightingEl # Null THEN parseLighting(doc, lightingEl)
                          ELSE defaultLighting),
     camera |-> Let(querySelector(doc, element, "Camera"),
                    LAMBDA cameraEl :
                        IF cameraEl # Null THEN parseCamera(doc, cameraEl)
                        ELSE defaultCamera)]

\* the scene literal of parseS3DX with the camera position left at the origin
missingSceneDefault_ccamAtOrigin ==
    [version |-> Int2Num(1), background_color |-> 0, reflexion_map |-> <<>>,
     display_sky_box |-> 0,
     lighting |->
        [version |-> Int2Num(9),
         ecl |-> PointU(Int2Num(0), Num(-208287, 100), Num(-208287, 100)),
         color |-> 16777215, color_spot |-> 16777215,
         intensity |-> Num(8, 10), intensity2 |-> Num(625, 1000),
         intensity_ambient |-> Num(475, 1000), intensity_spec |-> Int2Num(1)],
     camera |->
        [version |-> Num(12, 10), alpha |-> Int2Num(0), dim_obj |-> Num(208287, 1000),
         crot |-> PointU(Int2Num(0), Int2Num(0), Int2Num(0)),
         cvis |-> PointU(Int2Num(0), Int2Num(0), Int2Num(0)),
         ccam |-> PointU(Int2Num(0), Int2Num(0), Int2Num(0)),
         oy |-> PointU(Int2Num(0), Int2Num(1), Int2Num(0)),
         ur |-> PointU(Int2Num(0), Int2Num(0), Int2Num(1)),
         view |->
            [version |-> Num(12, 10), wh |-> Int2Num(865), ww |-> Int2Num(1896),
             wox |-> Int2Num(0), woy |-> Int2Num(0), uh |-> Int2Num(0),
             uw |-> Int2Num(0), uxmin |-> Int2Num(0), uymin |-> Int2Num(0),
             cxy |-> Int2Num(0), mrgx |-> Int2Num(0), mrgy |-> Int2Num(0),
             police |-> MSSansSerif, over_sample |-> 1, grid |-> Int2Num(10)]]]

\* the scene literal of parseS3DX (lines 436-478), used when the document has no
\* Scene element
missingSceneDefault ==
    [version |-> Int2Num(1), background_color |-> 0, reflexion_map |-> <<>>,
     display_sky_box |-> 0,
     lighting |->
        [version |-> Int2Num(9),
         ecl |-> PointU(Int2Num(0), Num(-208287, 100), Num(-208287, 100)),
         color |-> 16777215, color_spot |-> 16777215,
         intensity |-> Num(8, 10), intensity2 |-> Num(625, 1000),
         intensity_ambient |-> Num(475, 1000), intensity_spec |-> Int2Num(1)],
     camera |->
        [version |-> Num(12, 10), alpha |-> Int2Num(0), dim_obj |-> Num(208287, 1000),
         crot |-> PointU(Int2Num(0), Int2Num(0), Int2Num(0)),
         cvis |-> PointU(Int2Num(0), Int2Num(0), Int2Num(0)),
         ccam |-> PointU(Int2Num(0), Int2Num(0), Num(-36195, 100)),
         oy |-> PointU(Int2Num(0), Int2Num(1), Int2Num(0)),
         ur |-> PointU(Int2Num(0), Int2Num(0), Int2Num(1)),
         view |->
            [version |-> Num(12, 10), wh |-> Int2Num(865), ww |-> Int2Num(1896),
             wox |-> Int2Num(0), woy |-> Int2Num(0), uh |-> Int2Num(0),
             uw |-> Int2Num(0), uxmin |-> Int2Num(0), uymin |-> Int2Num(0),
             cxy |-> Int2Num(0), mrgx |-> Int2Num(0), mrgy |-> Int2Num(0),
             police |-> MSSansSerif, over_sample |-> 1, grid |-> Int2Num(10)]]]

\* the largest index tried when a tag name is matched against the Couples_ family
MaxCoupleIndex == 3

\* `child.tagName.startsWith('Couples_')`, over the tag names the model's
\* documents use: Couples_ followed by nothing or by an index
startsWithCouples(tagName) ==
    tagName = "Couples_" \/ \E k \in 0..MaxCoupleIndex : tagName = "Couples_" \o ToString(k)

bezierOr(doc, element, holder) ==
    Let(querySelectorIn(doc, element, holder, "Bezier3d"),
        LAMBDA el : IF el # Null THEN parseBezier3D(doc, el) ELSE emptyBezier)

\* the conversion of the volume fields without the division
fromCentilitres_noDivision(raw) == raw

\* `... / 100.0`: the volume fields are stored scaled by 100
fromCentilitres(raw) == Div(raw, Int2Num(100))

\* the cross-sections collected from every descendant of the Board
boardCouples_descendants(doc, element) ==
    Let(SelectSeq([k \in 1..Cardinality(descendants(doc, element)) |->
                      Node(element.index + k)],
                  LAMBDA child : startsWithCouples(doc[child.index].tag)),
        LAMBDA coupleEls : [k \in 1..Len(coupleEls) |-> parseCouple(doc, coupleEls[k])])

\* the loop over element.children that keeps the Couples_ children
boardCouples(doc, element) ==
    Let(SelectSeq(children(doc, element),
                  LAMBDA child : startsWithCouples(doc[child.index].tag)),
        LAMBDA coupleEls : [k \in 1..Len(coupleEls) |-> parseCouple(doc, coupleEls[k])])

parseBoard(doc, element) ==
    [version |-> parseInt(getChildText(doc, element, "Version")),
     version_number |-> getChildText(doc, element, "VersionNumber"),
     name |-> getChildText(doc, element, "Name"),
     author |-> getChildText(doc, element, "Author"),
     comment |-> getChildText(doc, element, "Comment"),
     variation |-> getChildText(doc, element, "Variation"),
     category |-> getChildText(doc, element, "Category"),
     category_type |-> getChildText(doc, element, "CategoryType"),
     construction |-> getChildText(doc, element, "Construction"),
     rider_name |-> getChildText(doc, element, "RiderName"),
     rider_weight |-> parseFloat(getChildText(doc, element, "RiderWeight")),
     length |-> parseFloat(getChildText(doc, element, "Length")),
     length_dev |-> parseFloat(getChildText(doc, element, "LengthDev")),
     width |-> parseFloat(getChildText(doc, element, "Width")),
     thickness |-> parseFloat(getChildText(doc, element, "Thickness")),
     tail_rocker |-> parseFloat(getChildText(doc, element, "Tail_rocker")),
     nose_rocker |-> parseFloat(getChildText(doc, element, "Nose_rocker")),
     volume |-> fromCentilitres(parseFloat(getChildText(doc, element, "Volume"))),
     surface_proj |-> parseFloat(getChildText(doc, element, "SurfaceProj")),
     volume_tail |-> fromCentilitres(parseFloat(getChildText(doc, element, "VolumeTail"))),
     volume_nose |-> fromCentilitres(parseFloat(getChildText(doc, element, "VolumeNose"))),
     surface_proj_tail |-> parseFloat(getChildText(doc, element, "SurfaceProjTail")),
     surface_proj_nose |-> parseFloat(getChildText(doc, element, "SurfaceProjNose")),
     otl |-> bezierOr(doc, element, "Otl"),
     str_bot |-> bezierOr(doc, element, "StrBot"),
     str_deck |-> bezierOr(doc, element, "StrDeck"),
     number_of_slices |-> parseInt(getChildText(doc, element, "Number_of_slices")),
     couples |-> boardCouples(doc, element),
     color |-> parseInt(getChildText(doc, element, "Color")),
     color_bot |-> parseInt(getChildText(doc, element, "ColorBot")),
     color_rail |-> parseInt(getChildText(doc, element, "ColorRail"))]

\* the design parseS3DX builds from the root element
buildDesign(doc, rootElement, boardElement) ==
    [board |-> parseBoard(doc, boardElement),
     scene |-> Let(querySelector(doc, rootElement, "Scene"),
                   LAMBDA sceneElement :
                       IF sceneElement # Null THEN parseScene(doc, sceneElement)
                       ELSE missingSceneDefault)]

\* the try block of parseS3DX, were it to demand a Scene element as well
tryParseS3DX_sceneRequired(doc) ==
    Let(querySelector(doc, DocumentNode, "Shape3d_design"),
        LAMBDA rootElement :
            IF rootElement = Null
            THEN [thrown |-> "No Shape3d_design element found", value |-> Null]
            ELSE Let(querySelector(doc, rootElement, "Board"),
                     LAMBDA boardElement :
                         IF boardElement = Null
                         THEN [thrown |-> "No Board element found", value |-> Null]
                         ELSE IF querySelector(doc, rootElement, "Scene") = Null
                         THEN [thrown |-> "No Scene element found", value |-> Null]
                         ELSE [thrown |-> "",
                               value |-> buildDesign(doc, rootElement, boardElement)]))

\* the try block of parseS3DX: the Error it throws ("" when none) and otherwise
\* the design it builds
tryParseS3DX(doc) ==
    Let(querySelector(doc, DocumentNode, "Shape3d_design"),
        LAMBDA rootElement :
            IF rootElement = Null
            THEN [thrown |-> "No Shape3d_design element found", value |-> Null]
            ELSE Let(querySelector(doc, rootElement, "Board"),
                     LAMBDA boardElement :
                         IF boardElement = Null
                         THEN [thrown |-> "No Board element found", value |-> Null]
                         ELSE [thrown |-> "",
                               value |-> buildDesign(doc, rootElement, boardElement)]))

\* what the catch block returns, were it to hand back a design built from defaults
catchResult_partialDesign(doc) == [board |-> Null, scene |-> missingSceneDefault]

\* what the catch block returns: `return null`
catchResult(doc) == Null

\* parseS3DX: the value returned and the Error passed to console.error ("" when
\* none was thrown)
parseS3DX(doc) ==
    Let(tryParseS3DX(doc),
        LAMBDA attempt :
            IF attempt.thrown # ""
            THEN [value |-> catchResult(doc), logged |-> attempt.thrown]
            ELSE [value |-> attempt.value, logged |-> ""])

(***************************************************************************)
(* Inputs of the evaluator harness.                                        *)
(***************************************************************************)
SeqsUpTo(S, n) == UNION {[1..k -> S] : k \in 0..n}

Polygon3D(points) ==
    [nb_of_points |-> Len(points), open |-> 0, symmetry |-> 0,
     symmetry_center |-> Point3D(Int2Num(0), Int2Num(0), Int2Num(0), Int2Num(0), 0),
     plan |-> 0, points |-> points]

Bezier3D(cp, t1, t2) ==
    [name |-> <<>>, degree |-> 3, open |-> 1, symmetry |-> 0, plan |-> 0,
     control_points |-> Polygon3D(cp),
     tangents_1 |-> Polygon3D(t1),
     tangents_2 |-> Polygon3D(t2),
     tangents_m |-> Polygon3D(<<>>),
     control_type_points |-> <<>>,
     tangent_type_points |-> <<>>]

ControlPointInputs ==
    {Point3D(Int2Num(0), Int2Num(0), Int2Num(0), Int2Num(0), 1),
     Point3D(Int2Num(50), Int2Num(20), Int2Num(3), Num(1, 2), 2),
     Point3D(Int2Num(100), Int2Num(0), Int2Num(1), Int2Num(1), 3)}

\* the i-th handle (1-based) of the first and of the second tangent set
Tangent1Input(i) == Point3D(Int2Num(10 * i + 3), Int2Num(7 + i), Int2Num(i), Int2Num(0), 10 + i)

Tangent2Input(i) == Point3D(Int2Num(10 * i + 6), Int2Num(11 + 2 * i), Int2Num(i + 2), Int2Num(1), 20 + i)

\* tangent-set sizes tried for a control polygon of c points: none, one short, full
TangentLengths(c) == {0, c} \cup (IF c > 0 THEN {c - 1} ELSE {})

\* profile inputs of mirrorCrossSectionPoints: the y of each point is drawn from
\* MirrorYInputs, its z is its position so that the points stay distinguishable
MirrorYInputs == {Int2Num(0), Num(1, 2000), Num(-1, 2000), Int2Num(5), Int2Num(-5)}

ProfileOf(ys) == [i \in 1..Len(ys) |-> Point3D(Int2Num(0), ys[i], Int2Num(i), Int2Num(0), 0)]

\* polyline inputs of interpolateZAtX and the queried x
PolylinePointInputs ==
    {Point3D(Int2Num(x), Int2Num(0), Int2Num(z), Int2Num(0), 0) : x \in 0..2, z \in {0, 4}}

QueryInputs == {Int2Num(-1), Int2Num(0), Num(1, 2), Int2Num(1), Int2Num(2), Int2Num(3)}

(***************************************************************************)
(* The application shell starts with no design, no error, nothing loading. *)
(***************************************************************************)
AppVars == <<design, error, isLoading, fileRead, sampleLoad, viewer>>

\* the viewer before ThreeViewer is mounted
Unmounted ==
    [mounted |-> FALSE, scene |-> FALSE, effectPending |-> FALSE, mesh |-> Null,
     error |-> Null]

AppInit ==
    /\ design = Null
    /\ error = ""
    /\ isLoading = FALSE
    /\ fileRead = [pc |-> "idle", outcome |-> Null]
    /\ sampleLoad = [pc |-> "fetching"]
    /\ viewer = Unmounted

(***************************************************************************)
(* Evaluator harness: the initial state holds one pending call of a public *)
(* operation of BezierEvaluator, its arguments drawn from the bounded sets *)
(* above; the action of that operation applies it.                         *)
(***************************************************************************)
\* the result slot of a call: pending, or returned with a value
Pending == [done |-> FALSE]

Returned(value) == [done |-> TRUE, value |-> value]

GenerateBezierPointsCalls ==
    UNION {
      {[op |-> "generateBezierPoints",
        bezier |-> Bezier3D(cp, [i \in 1..l1 |-> Tangent1Input(i)],
                                [i \in 1..l2 |-> Tangent2Input(i)]),
        numPoints |-> numPoints] :
          l1 \in TangentLengths(Len(cp)), l2 \in TangentLengths(Len(cp)),
          numPoints \in 0..MaxNumPoints} :
      cp \in SeqsUpTo(ControlPointInputs, MaxControlPoints)}

MirrorCrossSectionPointsCalls ==
    {[op |-> "mirrorCrossSectionPoints", halfPoints |-> ProfileOf(ys)] :
        ys \in SeqsUpTo(MirrorYInputs, MaxProfileLen)}

InterpolateZAtXCalls ==
    {[op |-> "interpolateZAtX", points |-> points, x |-> x] :
        points \in SeqsUpTo(PolylinePointInputs, MaxPolylineLen), x \in QueryInputs}

EvalInit ==
    /\ call \in GenerateBezierPointsCalls \cup MirrorCrossSectionPointsCalls
                \cup InterpolateZAtXCalls
    /\ ret = Pending
    /\ AppInit

GenerateBezierPoints ==
    /\ call.op = "generateBezierPoints"
    /\ ~ret.done
    /\ ret' = Returned(generateBezierPoints(call.bezier, call.numPoints))
    /\ UNCHANGED <<call, AppVars>>

MirrorCrossSectionPoints ==
    /\ call.op = "mirrorCrossSectionPoints"
    /\ ~ret.done
    /\ ret' = Returned(mirrorCrossSectionPoints(call.halfPoints))
    /\ UNCHANGED <<call, AppVars>>

InterpolateZAtX ==
    /\ call.op = "interpolateZAtX"
    /\ ~ret.done
    /\ ret' = Returned(interpolateZAtX(call.points, call.x))
    /\ UNCHANGED <<call, AppVars>>

EvalNext == GenerateBezierPoints \/ MirrorCrossSectionPoints \/ InterpolateZAtX

SpecEval == EvalInit /\ [][EvalNext]_vars

(***************************************************************************)
(* Documents of the decoder harness.  A document is built from options:    *)
(* whether it has the Shape3d_design root, a Board, which Scene it has,    *)
(* the text of the three volume fields and how many cross-sections.        *)
(***************************************************************************)
MaxCouples == 2

\* document fragments: the elements of a subtree, or of adjacent subtrees
Leaf(tag, text) == <<Element(tag, text, 0)>>

Branch(tag, body) == Let(body, LAMBDA inner : <<Element(tag, <<>>, Len(inner))>> \o inner)

\* the decimal digits of a natural number
RECURSIVE NatText(_)
NatText(i) ==
    IF i < 10 THEN <<Digits[i + 1]>> ELSE NatText(i \div 10) \o <<Digits[(i % 10) + 1]>>

IntText(i) == IF i < 0 THEN <<"-">> \o NatText(-i) ELSE NatText(i)

Point3dElement(pt) ==
    Branch("Point3d",
           Leaf("x", IntText(pt[1])) \o Leaf("y", IntText(pt[2])) \o Leaf("z", IntText(pt[3]))
           \o Leaf("u", IntText(-1)) \o Leaf("color", IntText(0)))

\* the Point3d elements of the first n points
RECURSIVE Point3dElements(_, _)
Point3dElements(pts, n) ==
    IF n = 0 THEN <<>> ELSE Point3dElements(pts, n - 1) \o Point3dElement(pts[n])

\* a Polygone3d record; its Symmetry_center is left out when center is FALSE
Polygone3dElement(pts, center) ==
    Branch("Polygone3d",
           Leaf("Nb_of_points", NatText(Len(pts))) \o Leaf("Open", NatText(1))
           \o Leaf("Symmetry", NatText(0))
           \o (IF center THEN Branch("Symmetry_center", Point3dElement(<<0, 0, 0>>))
               ELSE <<>>)
           \o Leaf("Plan", NatText(0))
           \o Point3dElements(pts, Len(pts)))

\* Control_type_point_0 .. Control_type_point_(n-1)
RECURSIVE ControlTypeElements(_)
ControlTypeElements(n) ==
    IF n = 0 THEN <<>>
    ELSE ControlTypeElements(n - 1)
         \o Leaf("Control_type_point_" \o ToString(n - 1), NatText(n))

\* a Bezier3d record: control points cp, tangent sets t1 and t2 (left out when
\* empty), one Control_type_point_ entry per control point
Bezier3dElement(name, cp, t1, t2, center) ==
    Branch("Bezier3d",
           Leaf("Name", name) \o Leaf("Degree", NatText(3)) \o Leaf("Open", NatText(1))
           \o Leaf("Symmetry", NatText(0)) \o Leaf("Plan", NatText(0))
           \o Branch("Control_points", Polygone3dElement(cp, center))
           \o (IF t1 = <<>> THEN <<>> ELSE Branch("Tangents_1", Polygone3dElement(t1, center)))
           \o (IF t2 = <<>> THEN <<>> ELSE Branch("Tangents_2", Polygone3dElement(t2, center)))
           \o ControlTypeElements(Len(cp)))

\* what a document leaves out, garbles or reorders below its Board element
Shapes ==
    {"complete", "noCurves", "noSymmetryCenter", "noCoupleBezier", "badScalars",
     "shuffledCouples", "nestedNames"}

\* cross-section k (0-based): a half profile anchored at x = 60 * (k + 1); the
\* first cross-section has no Bezier3d in the shape "noCoupleBezier"
CoupleElement(k, shape) ==
    Branch("Couples_" \o ToString(k),
           Leaf("Dessus", NatText(1)) \o Leaf("Dessous", NatText(0))
           \o Leaf("Displayed", NatText(1))
           \o (IF shape = "noCoupleBezier" /\ k = 0 THEN <<>>
               ELSE Bezier3dElement(<<"c">>,
                                    <<<<60 * (k + 1), 0, 0>>, <<60 * (k + 1), 25, 3>>,
                                      <<60 * (k + 1), 0, 6>>>>,
                                    <<>>, <<>>, shape # "noSymmetryCenter")))

\* Couples_0 .. Couples_(n-1)
RECURSIVE CoupleElements(_, _)
CoupleElements(n, shape) ==
    IF n = 0 THEN <<>> ELSE CoupleElements(n - 1, shape) \o CoupleElement(n - 1, shape)

\* Couples_(n-1) .. Couples_0: the cross-sections declared in descending order
RECURSIVE ShuffledCoupleElements(_, _)
ShuffledCoupleElements(n, shape) ==
    IF n = 0 THEN <<>>
    ELSE CoupleElement(n - 1, shape) \o ShuffledCoupleElements(n - 1, shape)

\* the Number_of_slices field and the cross-sections of the Board: in the shape
\* "shuffledCouples" the count says 7, a cross-section is kept inside an Archive
\* record, and the cross-sections come in descending order
BoardSlices(n, shape) ==
    IF shape = "shuffledCouples"
    THEN Leaf("Number_of_slices", NatText(7))
         \o Branch("Archive", CoupleElement(MaxCoupleIndex, shape))
         \o ShuffledCoupleElements(n, shape)
    ELSE Leaf("Number_of_slices", NatText(n)) \o CoupleElements(n, shape)

OptionalLeaf(tag, field) == IF field.present THEN Leaf(tag, field.text) ELSE <<>>

\* the scalar fields Version, Length, Width, Thickness of the Board: in the shape
\* "badScalars" Version is not a number, Length is empty, Width is missing and
\* Thickness carries a unit; in the shape "nestedNames" the Board has no Name of
\* its own while its curves have one
BoardScalars(shape) ==
    IF shape = "badScalars"
    THEN Leaf("Version", <<"v", "8">>) \o Leaf("Name", <<>>)
         \o Leaf("Length", <<>>) \o Leaf("Thickness", <<"6", "m", "m">>)
    ELSE IF shape = "nestedNames"
    THEN Leaf("Version", NatText(8)) \o Leaf("Length", NatText(180))
         \o Leaf("Width", NatText(50)) \o Leaf("Thickness", NatText(6))
    ELSE Leaf("Version", NatText(8)) \o Leaf("Name", <<"m", "i", "n", "i">>)
         \o Leaf("Length", NatText(180)) \o Leaf("Width", NatText(50))
         \o Leaf("Thickness", NatText(6))

\* the outline and the bottom stringer, both left out in the shape "noCurves"
BoardCurves(shape) ==
    IF shape = "noCurves" THEN <<>>
    ELSE Branch("Otl", Bezier3dElement(<<"o">>,
                           <<<<0, 0, 0>>, <<90, 25, 0>>, <<180, 0, 0>>>>,
                           <<>>, <<>>, shape # "noSymmetryCenter"))
         \o Branch("StrBot", Bezier3dElement(<<"b">>,
                                 <<<<0, 0, 5>>, <<180, 0, 9>>>>,
                                 <<<<0, 0, 5>>, <<120, 0, 0>>>>,
                                 <<<<60, 0, 0>>, <<180, 0, 9>>>>,
                                 shape # "noSymmetryCenter"))

BoardElement(o) ==
    Branch("Board",
           BoardScalars(o.shape)
           \o OptionalLeaf("Volume", o.volume)
           \o OptionalLeaf("VolumeTail", o.volumeTail)
           \o OptionalLeaf("VolumeNose", o.volumeNose)
           \o BoardCurves(o.shape)
           \o BoardSlices(o.couples, o.shape))

LightingElement ==
    Branch("Lighting",
           Leaf("Version", NatText(7)) \o Leaf("Color", NatText(255))
           \o Leaf("Intensity", <<"0", ".", "5">>))

\* a Camera record, with its Ccam point and its View or without both
CameraElement(view) ==
    Branch("Camera",
           Leaf("Version", NatText(2)) \o Leaf("DimObj", NatText(100))
           \o (IF view
               THEN Branch("Ccam", Point3dElement(<<0, 0, -100>>))
                    \o Branch("View", Leaf("Version", NatText(3)) \o Leaf("Wh", NatText(600))
                                      \o Leaf("Police", <<"A">>))
               ELSE <<>>))

\* the Scene of a document; the kind "unversioned" has a Lighting with a Version
\* and a Color but neither Version nor Color of its own
SceneKinds == {"none", "bare", "lighting", "noView", "full", "unversioned"}

SceneElement(kind) ==
    IF kind = "none" THEN <<>>
    ELSE IF kind = "unversioned"
    THEN Branch("Scene", Leaf("Background_color", NatText(12)) \o LightingElement)
    ELSE Branch("Scene",
                Leaf("Version", NatText(4)) \o Leaf("Background_color", NatText(12))
                \o (IF kind \in {"lighting", "full"} THEN LightingElement ELSE <<>>)
                \o (IF kind = "full" THEN CameraElement(TRUE)
                    ELSE IF kind = "noView" THEN CameraElement(FALSE)
                    ELSE <<>>))

\* the document: the root element is Shape3d_design, or a foreign root holding
\* the same content when o.root is FALSE
MakeDocument(o) ==
    Branch(IF o.root THEN "Shape3d_design" ELSE "Other_design",
           (IF o.board THEN BoardElement(o) ELSE <<>>) \o SceneElement(o.scene))

Absent == [present |-> FALSE, text |-> <<>>]

Present(text) == [present |-> TRUE, text |-> text]

VolumeFields ==
    {Absent, Present(<<"1", "5", "0", "0">>), Present(<<"4", "2", "5", "0", ".", "5">>),
     Present(<<"-", "3", "0">>), Present(<<" ", "7", "5", " ">>), Present(<<"a", "b", "c">>)}

TailVolumeFields == {Absent, Present(<<"1", "5", "0", "0">>)}

NoseVolumeFields == {Absent, Present(<<"6", "2", ".", "5">>)}

\* the documents: every structure with the volume fields of a regular file, and
\* every combination of volume fields on one complete structure
DocumentOptions ==
    [root : BOOLEAN, board : BOOLEAN, scene : SceneKinds, shape : Shapes,
     volume : {Present(<<"1", "5", "0", "0">>)}, volumeTail : {Absent},
     volumeNose : {Absent}, couples : 0..MaxCouples]
    \cup
    [root : {TRUE}, board : {TRUE}, scene : {"none"}, shape : {"complete"},
     volume : VolumeFields, volumeTail : TailVolumeFields,
     volumeNose : NoseVolumeFields, couples : {0}]

(***************************************************************************)
(* Decoder harness: the initial state holds one pending parseS3DX call on  *)
(* a document of the family above; ParseS3DX applies the decoder.          *)
(***************************************************************************)
ParseS3DXCalls ==
    {[op |-> "parseS3DX", options |-> o, xmlContent |-> MakeDocument(o)] :
        o \in DocumentOptions}

DecodeInit ==
    /\ call \in ParseS3DXCalls
    /\ ret = Pending
    /\ AppInit

ParseS3DX ==
    /\ call.op = "parseS3DX"
    /\ ~ret.done
    /\ ret' = Returned(parseS3DX(call.xmlContent))
    /\ UNCHANGED <<call, AppVars>>

DecodeNext == ParseS3DX

SpecDecode == DecodeInit /\ [][DecodeNext]_vars

(***************************************************************************)
(* BoardCADMeshGenerator (boardcadMeshGenerator.ts).  surfaceBuffers is    *)
(* the position and index data of the S-Linear surface; the mesh handed to *)
(* the viewer is described by its geometry, its size and its material.     *)
(***************************************************************************)
uSteps == 40

vSteps == 32

\* the sample counts of the curves and the closure margin
boundsSamples == 400

outlineSamples == 200

stringerSamples == 200

profileSamples == 50

extension == 2

\* `Math.min(...values)`, `Math.max(...values)` over a set of numbers
spreadMin(values) ==
    IF values = {} THEN [n |-> 1, d |-> 0]
    ELSE IF \E v \in values : IsNaN(v) THEN NaN
    ELSE CHOOSE m \in values : \A v \in values : Le(m, v)

spreadMax(values) ==
    IF values = {} THEN [n |-> -1, d |-> 0]
    ELSE IF \E v \in values : IsNaN(v) THEN NaN
    ELSE CHOOSE m \in values : \A v \in values : Le(v, m)

\* Math.floor
mathFloor(a) == IF a.d = 0 THEN a ELSE Int2Num(a.n \div a.d)

\* `value || fallback` for a number that may be undefined
orElse(value, fallback) ==
    IF value = Undefined THEN fallback
    ELSE IF IsNaN(value) \/ value = Int2Num(0) THEN fallback
    ELSE value

\* the first loop of getWidthAtX: the samples within 2.0 of x
withinTolerance(halfOutline, x) ==
    {i \in 1..Len(halfOutline) : Lt(MathAbs(Sub(halfOutline[i].x, x)), Int2Num(2))}

\* the second loop of getWidthAtX: the first i (1-based) with p1.x <= x <= p2.x,
\* or 0 when there is none
bracketingSample(halfOutline, x) ==
    firstIndex({i \in 1..(Len(halfOutline) - 1) :
                    Le(halfOutline[i].x, x) /\ Le(x, halfOutline[i + 1].x)})

\* the width test of the first loop accepting samples at exactly 2.0 from x
widthOfOutline_inclusiveTolerance(halfOutline, x) ==
    IF Len(halfOutline) = 0 THEN Int2Num(20)
    ELSE Let({i \in 1..Len(halfOutline) :
                 Le(MathAbs(Sub(halfOutline[i].x, x)), Int2Num(2))},
             LAMBDA near :
                 IF near # {}
                 THEN Mul(spreadMax({MathAbs(halfOutline[i].y) : i \in near}
                                    \cup {Int2Num(0)}), Int2Num(2))
                 ELSE Int2Num(0))

\* getWidthAtX after the outline has been sampled
widthOfOutline(halfOutline, x) ==
    IF Len(halfOutline) = 0 THEN Int2Num(20)
    ELSE Let(withinTolerance(halfOutline, x),
             LAMBDA near :
                 IF near # {}
                 THEN Mul(spreadMax({MathAbs(halfOutline[i].y) : i \in near}
                                    \cup {Int2Num(0)}), Int2Num(2))
                 ELSE Let(bracketingSample(halfOutline, x),
                          LAMBDA i :
                              IF i = 0 THEN Int2Num(0)
                              ELSE Let(Div(Sub(x, halfOutline[i].x),
                                           Sub(halfOutline[i + 1].x, halfOutline[i].x)),
                                       LAMBDA t :
                                           Mul(Add(Mul(MathAbs(halfOutline[i].y),
                                                       Sub(Int2Num(1), t)),
                                                   Mul(MathAbs(halfOutline[i + 1].y), t)),
                                               Int2Num(2)))))

getWidthAtX(board, x) ==
    Let(asArray(generateBezierPoints(board.otl, outlineSamples)),
        LAMBDA halfOutline : widthOfOutline(halfOutline, x))

getBottomAtX(board, x) ==
    Let(asArray(generateBezierPoints(board.str_bot, stringerSamples)),
        LAMBDA points : interpolateZAtX(points, x))

getDeckAtX(board, x) ==
    IF Len(board.str_deck.control_points.points) > 0
    THEN Let(asArray(generateBezierPoints(board.str_deck, stringerSamples)),
             LAMBDA points : interpolateZAtX(points, x))
    ELSE Add(getBottomAtX(board, x), board.thickness)

getThicknessAtX(board, x) ==
    Let(getDeckAtX(board, x),
        LAMBDA deck : Let(getBottomAtX(board, x), LAMBDA bottom : Sub(deck, bottom)))

\* the curves of a board sampled once: every query of one mesh sees these samples
sampledCurves(board) ==
    [halfOutline |-> asArray(generateBezierPoints(board.otl, outlineSamples)),
     bottom |-> asArray(generateBezierPoints(board.str_bot, stringerSamples)),
     deck |-> IF Len(board.str_deck.control_points.points) > 0
              THEN asArray(generateBezierPoints(board.str_deck, stringerSamples))
              ELSE <<>>,
     basePoints |->
        [k \in 1..Len(board.couples) |->
            asArray(mirrorCrossSectionPoints(
                        asArray(generateBezierPoints(board.couples[k].bezier,
                                                     profileSamples))))]]

\* getBottomAtX, getDeckAtX, getThicknessAtX on the sampled curves
bottomOf(board, curves, x) == interpolateZAtX(curves.bottom, x)

deckOf(board, curves, x) ==
    IF Len(board.str_deck.control_points.points) > 0
    THEN interpolateZAtX(curves.deck, x)
    ELSE Add(bottomOf(board, curves, x), board.thickness)

thicknessOf(board, curves, x) ==
    Let(deckOf(board, curves, x),
        LAMBDA deck : Let(bottomOf(board, curves, x), LAMBDA bottom : Sub(deck, bottom)))

\* generateScaledCrossSection after the profile has been sampled and mirrored
scaledCrossSection(basePoints, targetWidth, targetThickness) ==
    IF Len(basePoints) = 0 THEN <<>>
    ELSE
      Let([minY |-> spreadMin({basePoints[i].y : i \in 1..Len(basePoints)}),
           maxY |-> spreadMax({basePoints[i].y : i \in 1..Len(basePoints)}),
           minZ |-> spreadMin({basePoints[i].z : i \in 1..Len(basePoints)}),
           maxZ |-> spreadMax({basePoints[i].z : i \in 1..Len(basePoints)})],
          LAMBDA box :
            Let([widthScale |->
                    IF Lt(Int2Num(0), Sub(box.maxY, box.minY))
                    THEN Div(targetWidth, Sub(box.maxY, box.minY)) ELSE Int2Num(1),
                 thicknessScale |->
                    IF Lt(Int2Num(0), Sub(box.maxZ, box.minZ))
                    THEN Div(targetThickness, Sub(box.maxZ, box.minZ)) ELSE Int2Num(1),
                 centerY |-> Mul(Add(box.minY, box.maxY), Num(1, 2)),
                 centerZ |-> Mul(Add(box.minZ, box.maxZ), Num(1, 2)),
                 halfThickness |-> Mul(targetThickness, Num(1, 2))],
                LAMBDA scale :
                  asArray([i \in 1..Len(basePoints) |->
                     [x |-> basePoints[i].x,
                      y |-> Mul(Sub(basePoints[i].y, scale.centerY), scale.widthScale),
                      z |-> Sub(Mul(Sub(basePoints[i].z, scale.centerZ),
                                    scale.thicknessScale),
                                scale.halfThickness),
                      u |-> basePoints[i].u,
                      color |-> basePoints[i].color]])))

\* the loop of getInterpolatedCrossSection over the couples from i (0-based) on;
\* acc = [prevIdx, nextIdx]
RECURSIVE surroundingLoop(_, _, _, _)
surroundingLoop(couples, x, i, acc) ==
    IF i >= Len(couples) THEN acc
    ELSE IF Len(couples[i + 1].bezier.control_points.points) > 0
    THEN LET csX == couples[i + 1].bezier.control_points.points[1].x
             prevIdx == IF Le(csX, x) THEN i ELSE acc.prevIdx
         IN  IF Le(x, csX) /\ acc.nextIdx = 0
             THEN [prevIdx |-> prevIdx, nextIdx |-> i]
             ELSE surroundingLoop(couples, x, i + 1,
                                  [prevIdx |-> prevIdx, nextIdx |-> acc.nextIdx])
    ELSE surroundingLoop(couples, x, i + 1, acc)

\* prevIdx and nextIdx (0-based) of the two cross-sections used at x
surroundingCouples(couples, x) ==
    Let(surroundingLoop(couples, x, 0, [prevIdx |-> 0, nextIdx |-> 0]),
        LAMBDA found :
            [prevIdx |-> found.prevIdx,
             nextIdx |-> IF found.nextIdx = 0 THEN Len(couples) - 1 ELSE found.nextIdx])

\* `cs.bezier?.control_points?.points?.[0]?.x`
firstControlX(couple) ==
    IF Len(couple.bezier.control_points.points) > 0
    THEN couple.bezier.control_points.points[1].x
    ELSE Undefined

\* the blend factor t of getInterpolatedCrossSection
blendFactor(x, x1, x2) ==
    IF x2 # x1 \/ IsNaN(x1) THEN Div(Sub(x, x1), Sub(x2, x1)) ELSE Int2Num(0)

\* the blending loop of getInterpolatedCrossSection: reading `p1.y` of an
\* undefined p1 throws a TypeError
blendProfiles(x, t, cs1Points, cs2Points) ==
    LET numPoints == IF Len(cs1Points) > Len(cs2Points) THEN Len(cs1Points)
                     ELSE Len(cs2Points)
        min(a, b) == IF a < b THEN a ELSE b
    IN  IF numPoints > 0 /\ (Len(cs1Points) = 0 \/ Len(cs2Points) = 0)
        THEN [thrown |-> "TypeError", points |-> <<>>]
        ELSE [thrown |-> "",
              points |->
                 asArray([i \in 1..numPoints |->
                    [x |-> x,
                     y |-> Add(Mul(cs1Points[min(i, Len(cs1Points))].y, Sub(Int2Num(1), t)),
                               Mul(cs2Points[min(i, Len(cs2Points))].y, t)),
                     z |-> Add(Mul(cs1Points[min(i, Len(cs1Points))].z, Sub(Int2Num(1), t)),
                               Mul(cs2Points[min(i, Len(cs2Points))].z, t)),
                     u |-> Int2Num(0),
                     color |-> 0]])]

\* getInterpolatedCrossSection on the sampled curves: the Error it throws ("" when
\* none) and otherwise the blended profile, with the locals prevIdx, nextIdx and t
\* it was built from
interpolatedCrossSection(board, curves, x) ==
    IF Len(board.couples) = 0 THEN [thrown |-> "", points |-> <<>>]
    ELSE
      Let(surroundingCouples(board.couples, x),
          LAMBDA around :
            Let([t |-> blendFactor(x,
                          orElse(firstControlX(board.couples[around.prevIdx + 1]),
                                 Int2Num(0)),
                          orElse(firstControlX(board.couples[around.nextIdx + 1]),
                                 board.length)),
                 targetWidth |-> widthOfOutline(curves.halfOutline, x),
                 targetThickness |-> thicknessOf(board, curves, x)],
                LAMBDA target :
                  Let(scaledCrossSection(curves.basePoints[around.prevIdx + 1],
                                         target.targetWidth, target.targetThickness),
                      LAMBDA cs1Points :
                        Let(scaledCrossSection(curves.basePoints[around.nextIdx + 1],
                                               target.targetWidth, target.targetThickness),
                            LAMBDA cs2Points :
                              Let(blendProfiles(x, target.t, cs1Points, cs2Points),
                                  LAMBDA blended :
                                    [thrown |-> blended.thrown,
                                     points |-> blended.points,
                                     prevIdx |-> around.prevIdx,
                                     nextIdx |-> around.nextIdx,
                                     t |-> target.t])))))

getInterpolatedCrossSection(board, x) ==
    Let(sampledCurves(board), LAMBDA curves : interpolatedCrossSection(board, curves, x))

\* generateScaledCrossSection: the profile of the couple sampled, mirrored, scaled
\* and re-centered
generateScaledCrossSection(couple, targetWidth, targetThickness) ==
    Let(asArray(mirrorCrossSectionPoints(
                    asArray(generateBezierPoints(couple.bezier, profileSamples)))),
        LAMBDA basePoints : scaledCrossSection(basePoints, targetWidth, targetThickness))

\* getPointOnCrossSection; the angle is kept in turns, v * 2 pi being v turns, so
\* that s = angle / (2 pi) is the number of turns
getPointOnCrossSection(crossSection, angle, x) ==
    IF Len(crossSection) = 0
    THEN [x |-> x, y |-> Int2Num(0), z |-> Int2Num(0), u |-> Int2Num(0), color |-> 0]
    ELSE LET idx == mathFloor(Mul(angle, Int2Num(Len(crossSection) - 1))).n
             clampedIdx == IF idx < 0 THEN 0
                           ELSE IF idx > Len(crossSection) - 1 THEN Len(crossSection) - 1
                           ELSE idx
         IN  crossSection[clampedIdx + 1]

\* the remap with one smoothstep over the whole length
adjustedParameter_singleSmoothstep(i) ==
    LET u == Div(Int2Num(i), Int2Num(uSteps))
    IN  Mul(Mul(u, u), Sub(Int2Num(3), Mul(Int2Num(2), u)))

\* uAdjusted of row i: a smoothstep over each half of the rows
adjustedParameter(i) ==
    LET u == Div(Int2Num(i), Int2Num(uSteps))
    IN  IF Lt(u, Num(1, 2))
        THEN LET t == Mul(u, Int2Num(2))
             IN  Mul(Num(1, 2), Mul(Mul(t, t), Sub(Int2Num(3), Mul(Int2Num(2), t))))
        ELSE LET t == Mul(Sub(u, Num(1, 2)), Int2Num(2))
                 smoothed == Mul(Mul(t, t), Sub(Int2Num(3), Mul(Int2Num(2), t)))
             IN  Add(Num(1, 2), Mul(Num(1, 2), smoothed))

\* minX and maxX of the surface: the outline's extent, or 0 .. board.length when
\* the outline has no samples, widened by the extension at both ends
surfaceBounds(board) ==
    Let(asArray(generateBezierPoints(board.otl, boundsSamples)),
        LAMBDA outlinePoints :
            IF Len(outlinePoints) > 0
            THEN [minX |-> Sub(spreadMin({outlinePoints[i].x : i \in 1..Len(outlinePoints)}),
                               Int2Num(extension)),
                  maxX |-> Add(spreadMax({outlinePoints[i].x : i \in 1..Len(outlinePoints)}),
                               Int2Num(extension))]
            ELSE [minX |-> Sub(Int2Num(0), Int2Num(extension)),
                  maxX |-> Add(board.length, Int2Num(extension))])

\* x of row i
rowPosition(bounds, i) ==
    Add(bounds.minX, Mul(adjustedParameter(i), Sub(bounds.maxX, bounds.minX)))

\* `vertices.push(point.x * 0.01, point.z * 0.01, point.y * 0.01)`
pushedVertex(x, y, z) == <<Mul(x, Num(1, 100)), Mul(z, Num(1, 100)), Mul(y, Num(1, 100))>>

\* the collapse test that never collapses a row
collapses_never(widthAtX) == FALSE

\* `widthAtX <= 0.1`
collapses(widthAtX) == Le(widthAtX, Num(1, 10))

\* the vertices of the row at x, vertex j (0-based) at index j + 1: vSteps + 1
\* copies of the centerline point when the row collapses, vSteps + 1 points of the
\* blended profile otherwise
rowVertices(board, curves, x) ==
    Let([widthAtX |-> widthOfOutline(curves.halfOutline, x),
         rockerAtX |-> bottomOf(board, curves, x),
         thicknessAtX |-> thicknessOf(board, curves, x)],
        LAMBDA at :
          Let(Add(at.rockerAtX, Mul(at.thicknessAtX, Num(1, 2))),
              LAMBDA lift :
                IF collapses(at.widthAtX)
                THEN Let(pushedVertex(x, Int2Num(0), lift),
                         LAMBDA vertex :
                           [thrown |-> "", vertices |-> [j \in 1..(vSteps + 1) |-> vertex]])
                ELSE Let(interpolatedCrossSection(board, curves, x),
                         LAMBDA crossSection :
                           IF crossSection.thrown # ""
                           THEN [thrown |-> crossSection.thrown, vertices |-> <<>>]
                           ELSE [thrown |-> "",
                                 vertices |->
                                   asArray([j \in 1..(vSteps + 1) |->
                                      Let(getPointOnCrossSection(
                                              crossSection.points,
                                              Div(Int2Num(j - 1), Int2Num(vSteps)), x),
                                          LAMBDA csPoint :
                                              pushedVertex(x, csPoint.y,
                                                           Add(csPoint.z, lift)))])])))

\* the triangles without the reconnection of the last column to column 0
generateTriangles_noWrap(u, v) ==
    [k \in 1..(6 * u * v) |->
        LET i == ((k - 1) \div 6) \div v
            j == ((k - 1) \div 6) % v
            verticesPerRow == v + 1
            idx0 == i * verticesPerRow + j
            idx1 == i * verticesPerRow + j + 1
            idx2 == (i + 1) * verticesPerRow + j
            idx3 == (i + 1) * verticesPerRow + j + 1
        IN  <<idx0, idx2, idx1, idx1, idx2, idx3>>[((k - 1) % 6) + 1]]

\* generateTriangles: the indices pushed, cell (i, j) giving the six at 6 * (i * v + j)
generateTriangles(u, v) ==
    [k \in 1..(6 * u * v) |->
        LET i == ((k - 1) \div 6) \div v
            j == ((k - 1) \div 6) % v
            verticesPerRow == v + 1
            idx0 == i * verticesPerRow + j
            idx1 == IF j = v - 1 THEN i * verticesPerRow ELSE i * verticesPerRow + j + 1
            idx2 == (i + 1) * verticesPerRow + j
            idx3 == IF j = v - 1 THEN (i + 1) * verticesPerRow
                    ELSE (i + 1) * verticesPerRow + j + 1
        IN  <<idx0, idx2, idx1, idx1, idx2, idx3>>[((k - 1) % 6) + 1]]

\* the position and index buffers of generateMeshSLinearInterpolation: the Error
\* thrown while a row is built ("" when none), the flat array of vertex
\* coordinates, three per vertex, and the triangle indices
surfaceBuffers(board) ==
    Let(sampledCurves(board),
        LAMBDA curves :
          Let(surfaceBounds(board),
              LAMBDA bounds :
                Let(asArray([r \in 1..(uSteps + 1) |->
                               rowVertices(board, curves, rowPosition(bounds, r - 1))]),
                    LAMBDA rows :
                      IF \E r \in 1..(uSteps + 1) : rows[r].thrown # ""
                      THEN [thrown |-> "TypeError", vertices |-> <<>>, indices |-> <<>>]
                      ELSE [thrown |-> "",
                            vertices |->
                               [k \in 1..(3 * (uSteps + 1) * (vSteps + 1)) |->
                                   rows[(((k - 1) \div 3) \div (vSteps + 1)) + 1]
                                      .vertices[(((k - 1) \div 3) % (vSteps + 1)) + 1]
                                         [((k - 1) % 3) + 1]],
                            indices |-> generateTriangles(uSteps, vSteps)])))

\* the method choice with the S-Linear path taken for every board
selectMethod_alwaysSLinear(board) == "S-Linear"

\* `board.couples && board.couples.length > 0`
selectMethod(board) == IF Len(board.couples) > 0 THEN "S-Linear" ELSE "simple"

\* the grid of (uSteps + 1) x (vSteps + 1) vertices and two triangles per cell
generateMeshSLinearInterpolation(d) ==
    [geometry |-> "BufferGeometry", vertices |-> (uSteps + 1) * (vSteps + 1),
     indices |-> 6 * uSteps * vSteps, color |-> 16777215]

\* the fallback: new THREE.BoxGeometry(2, 0.5, 0.1), color 0xff9999
generateMeshSimpleInterpolation(d) ==
    [geometry |-> "BoxGeometry", width |-> Int2Num(2), height |-> Num(1, 2),
     depth |-> Num(1, 10), color |-> 16751001]

\* `!design?.board`
missingBoard(d) == d = Null \/ d = Undefined \/ d.board = Null \/ d.board = Undefined

\* generateMesh: the Error it throws ("" when none) and otherwise the mesh
generateMesh(d) ==
    IF missingBoard(d)
    THEN [thrown |-> "Invalid design data: missing board information", mesh |-> Null]
    ELSE IF selectMethod(d.board) = "S-Linear"
         THEN [thrown |-> "", mesh |-> generateMeshSLinearInterpolation(d)]
         ELSE [thrown |-> "", mesh |-> generateMeshSimpleInterpolation(d)]

(***************************************************************************)
(* Mesh harness: the initial state holds one pending call of               *)
(* generateMeshSLinearInterpolation on a design with cross-sections, of    *)
(* getWidthAtX or getInterpolatedCrossSection on a board and a position,   *)
(* or of generateScaledCrossSection on a cross-section and a target size.  *)
(***************************************************************************)
\* a point of a curve and a curve without tangents
CurvePoint(x, y, z) == Point3D(Int2Num(x), Int2Num(y), Int2Num(z), Int2Num(0), 0)

Curve(cp) == Bezier3D(cp, <<>>, <<>>)

\* the fields of a Board the mesh generator reads
MeshBoard(length, thickness, otl, str_bot, str_deck, couples) ==
    [length |-> Int2Num(length), thickness |-> Int2Num(thickness), otl |-> otl,
     str_bot |-> str_bot, str_deck |-> str_deck, couples |-> couples]

\* outlines: a square tail 4 wide at x = 0 widening to 134 and closing at x = 796;
\* a wedge open at x = 796; none
PolylineOutline ==
    Curve(<<CurvePoint(0, 2, 0), CurvePoint(65, 67, 0), CurvePoint(260, 67, 0),
            CurvePoint(796, 0, 0)>>)

WedgeOutline == Curve(<<CurvePoint(0, 0, 0), CurvePoint(796, 199, 0)>>)

NoCurve == Curve(<<>>)

\* stringers: a bottom rising from 0 to 199, a deck rising from 2 to 400
LinearBottom == Curve(<<CurvePoint(0, 0, 0), CurvePoint(796, 0, 199)>>)

LinearDeck == Curve(<<CurvePoint(0, 0, 2), CurvePoint(796, 0, 400)>>)

\* cross-sections: a half profile at x, one with a single control point, one with none
ProfileCouple(x) == [bezier |-> Curve(<<CurvePoint(x, 0, 0), CurvePoint(x, 49, 49)>>)]

PointCouple(x) == [bezier |-> Curve(<<CurvePoint(x, 0, 0)>>)]

EmptyCouple == [bezier |-> NoCurve]

RegularBoard ==
    MeshBoard(796, 6, PolylineOutline, LinearBottom, NoCurve,
              <<ProfileCouple(200), ProfileCouple(600)>>)

WedgeBoard ==
    MeshBoard(796, 6, WedgeOutline, NoCurve, LinearDeck, <<ProfileCouple(200)>>)

NoOutlineBoard ==
    MeshBoard(796, 6, NoCurve, LinearBottom, NoCurve,
              <<ProfileCouple(200), ProfileCouple(600)>>)

MeshBoards ==
    {RegularBoard, WedgeBoard, NoOutlineBoard,
     MeshBoard(796, 6, PolylineOutline, LinearBottom, NoCurve,
               <<EmptyCouple, ProfileCouple(600)>>),
     MeshBoard(796, 6, PolylineOutline, LinearBottom, NoCurve,
               <<PointCouple(200), ProfileCouple(600)>>),
     MeshBoard(796, 6, PolylineOutline, LinearBottom, NoCurve,
               <<EmptyCouple, EmptyCouple>>),
     MeshBoard(796, 6, PolylineOutline, LinearBottom, NoCurve,
               <<ProfileCouple(600), ProfileCouple(200)>>),
     MeshBoard(-10, 6, NoCurve, NoCurve, NoCurve, <<ProfileCouple(200)>>)}

\* the positions at which the width is queried: below, at, inside and above the
\* outline's range 0 .. 796
WidthQueries ==
    {Int2Num(x) : x \in {-5, -3, -2, -1, 0, 1, 2, 3, 100, 264, 266, 400, 600,
                         793, 794, 795, 796, 797, 798, 799, 801}}
    \cup {Num(-3, 2), Num(1595, 2)}

GenerateMeshSLinearInterpolationCalls ==
    {[op |-> "generateMeshSLinearInterpolation", design |-> [board |-> board]] :
        board \in MeshBoards}

GetWidthAtXCalls ==
    {[op |-> "getWidthAtX", board |-> board, x |-> x] :
        board \in {RegularBoard, WedgeBoard, NoOutlineBoard}, x \in WidthQueries}

\* cross-sections declared in the order of the given anchors; an anchor of 0 stands
\* for a cross-section without control points
AnchoredCouples(anchors) ==
    [k \in 1..Len(anchors) |->
        IF anchors[k] = 0 THEN EmptyCouple ELSE ProfileCouple(anchors[k])]

AnchorLists ==
    {<<200>>, <<200, 600>>, <<600, 200>>, <<200, 400, 600>>, <<200, 600, 400>>,
     <<400, 200, 600>>, <<600, 400, 200>>, <<200, 200, 600>>, <<0, 200, 600>>,
     <<200, 0, 600>>, <<0, 600>>, <<600, 0>>, <<0, 0>>}

\* positions below, at, between and above the anchors
CrossSectionQueries == {Int2Num(x) : x \in {100, 200, 300, 400, 500, 600, 700}}

GetInterpolatedCrossSectionCalls ==
    {[op |-> "getInterpolatedCrossSection",
      board |-> MeshBoard(796, 6, PolylineOutline, LinearBottom, NoCurve,
                          AnchoredCouples(anchors)),
      x |-> x] : anchors \in AnchorLists, x \in CrossSectionQueries}

\* profiles to scale: the half profile 49 wide and 49 high, a flat one, a single
\* point, none; target sizes
ScaledCouples ==
    {ProfileCouple(200),
     [bezier |-> Curve(<<CurvePoint(200, 0, 5), CurvePoint(200, 49, 5)>>)],
     [bezier |-> Curve(<<CurvePoint(200, 0, 0), CurvePoint(200, 20, 10),
                         CurvePoint(200, 40, 10)>>)],
     PointCouple(200), EmptyCouple}

TargetSizes == {Int2Num(0), Int2Num(6), Int2Num(98), Num(1, 2)}

GenerateScaledCrossSectionCalls ==
    {[op |-> "generateScaledCrossSection", couple |-> couple,
      targetWidth |-> w, targetThickness |-> t] :
        couple \in ScaledCouples, w \in TargetSizes, t \in TargetSizes}

MeshInit ==
    /\ call \in GenerateMeshSLinearInterpolationCalls \cup GetWidthAtXCalls
                \cup GetInterpolatedCrossSectionCalls
                \cup GenerateScaledCrossSectionCalls
    /\ ret = Pending
    /\ AppInit

GenerateMeshSLinearInterpolation ==
    /\ call.op = "generateMeshSLinearInterpolation"
    /\ ~ret.done
    /\ \E buffers \in {surfaceBuffers(call.design.board)} : ret' = Returned(buffers)
    /\ UNCHANGED <<call, AppVars>>

GetWidthAtX ==
    /\ call.op = "getWidthAtX"
    /\ ~ret.done
    /\ \E width \in {getWidthAtX(call.board, call.x)} : ret' = Returned(width)
    /\ UNCHANGED <<call, AppVars>>

GetInterpolatedCrossSection ==
    /\ call.op = "getInterpolatedCrossSection"
    /\ ~ret.done
    /\ \E crossSection \in {getInterpolatedCrossSection(call.board, call.x)} :
            ret' = Returned(crossSection)
    /\ UNCHANGED <<call, AppVars>>

GenerateScaledCrossSection ==
    /\ call.op = "generateScaledCrossSection"
    /\ ~ret.done
    /\ \E scaled \in {generateScaledCrossSection(call.couple, call.targetWidth,
                                                  call.targetThickness)} :
            ret' = Returned(scaled)
    /\ UNCHANGED <<call, AppVars>>

MeshNext ==
    \/ GenerateMeshSLinearInterpolation
    \/ GetWidthAtX
    \/ GetInterpolatedCrossSection
    \/ GenerateScaledCrossSection

SpecMesh == MeshInit /\ [][MeshNext]_vars

(***************************************************************************)
(* The application shell (App, FileUpload, ThreeViewer).  One file read is *)
(* in flight at a time.  FileUpload is rendered while there is no design,  *)
(* ThreeViewer while there is one.                                         *)
(***************************************************************************)
\* the documents the shell is fed: with or without root and Board, no Scene,
\* zero or more cross-sections
AppDocumentOptions ==
    {o \in DocumentOptions :
        /\ o.scene = "none"
        /\ o.shape = "complete"
        /\ o.volume = Present(<<"1", "5", "0", "0">>)
        /\ o.volumeTail = Absent
        /\ o.volumeNose = Absent}

\* a dropped or selected file: whether its name ends with .s3dx, whether
\* file.text() resolves, and its content
Files == [s3dxName : BOOLEAN, readable : BOOLEAN, options : AppDocumentOptions]

\* setDesign: a null design unmounts ThreeViewer, a design re-runs its effect
setDesign(value) ==
    /\ design' = value
    /\ viewer' = IF value = Null THEN Unmounted
                 ELSE IF viewer.mounted THEN [viewer EXCEPT !.effectPending = TRUE]
                 ELSE viewer

handleFileLoaded(loadedDesign) ==
    /\ setDesign(loadedDesign)
    /\ error' = ""

handleError(errorMessage) ==
    /\ error' = errorMessage
    /\ setDesign(Null)

\* handleFileRead up to `await file.text()`
HandleFileRead(file) ==
    /\ design = Null
    /\ fileRead.pc = "idle"
    /\ IF ~file.s3dxName
       THEN /\ handleError("Please select a valid S3DX file")
            /\ fileRead' = [pc |-> "idle",
                            outcome |-> [file |-> file, read |-> FALSE, parsed |-> Null,
                                         logged |-> "", callback |-> "onError"]]
            /\ UNCHANGED isLoading
       ELSE /\ isLoading' = TRUE
            /\ fileRead' = [pc |-> "reading", file |-> file, outcome |-> Null]
            /\ UNCHANGED <<design, error, viewer>>
    /\ UNCHANGED <<call, ret, sampleLoad>>

\* the rest of handleFileRead once file.text() has settled
HandleFileReadSettled ==
    /\ fileRead.pc = "reading"
    /\ IF fileRead.file.readable
       THEN \E parsed \in {parseS3DX(MakeDocument(fileRead.file.options))} :
                /\ IF parsed.value # Null
                   THEN handleFileLoaded(parsed.value)
                   ELSE handleError("Failed to parse S3DX file. Please check the file format.")
                /\ fileRead' =
                     [pc |-> "idle",
                      outcome |-> [file |-> fileRead.file, read |-> TRUE,
                                   parsed |-> parsed.value, logged |-> parsed.logged,
                                   callback |-> IF parsed.value # Null
                                                THEN "onFileLoaded" ELSE "onError"]]
       ELSE /\ handleError("Error reading file: Unknown error")
            /\ fileRead' = [pc |-> "idle",
                            outcome |-> [file |-> fileRead.file, read |-> FALSE,
                                         parsed |-> Null, logged |-> "",
                                         callback |-> "onError"]]
    /\ isLoading' = FALSE
    /\ UNCHANGED <<call, ret, sampleLoad>>

\* loadSampleFile: fetch('/surfboard.s3dx') settles
SampleFetchSettled(ok) ==
    /\ sampleLoad.pc = "fetching"
    /\ sampleLoad' = [pc |-> IF ok THEN "reading" ELSE "done"]
    /\ UNCHANGED <<call, ret, design, error, isLoading, fileRead, viewer>>

\* loadSampleFile: response.text() resolves with a document
SampleTextResolved(options) ==
    /\ sampleLoad.pc = "reading"
    /\ sampleLoad' = [pc |-> "done"]
    /\ \E parsed \in {parseS3DX(MakeDocument(options))} :
           IF parsed.value # Null
           THEN setDesign(parsed.value) /\ isLoading' = FALSE
           ELSE UNCHANGED <<design, viewer, isLoading>>
    /\ UNCHANGED <<call, ret, error, fileRead>>

\* loadSampleFile: response.text() rejects
SampleTextRejected ==
    /\ sampleLoad.pc = "reading"
    /\ sampleLoad' = [pc |-> "done"]
    /\ UNCHANGED <<call, ret, design, error, isLoading, fileRead, viewer>>

HandleReset ==
    /\ design # Null
    /\ setDesign(Null)
    /\ error' = ""
    /\ UNCHANGED <<call, ret, isLoading, fileRead, sampleLoad>>

\* the mount effect of ThreeViewer; the renderer may fail to initialise
ViewerMount(webgl) ==
    /\ design # Null
    /\ ~viewer.mounted
    /\ viewer' = [mounted |-> TRUE, scene |-> webgl, effectPending |-> TRUE,
                  mesh |-> Null,
                  error |-> IF webgl THEN Null
                            ELSE [message |-> "Failed to initialize 3D viewer",
                                  details |-> "WebGL initialization failed"]]
    /\ UNCHANGED <<call, ret, design, error, isLoading, fileRead, sampleLoad>>

\* the effect of ThreeViewer that depends on the design
ViewerDesignEffect ==
    /\ viewer.mounted
    /\ viewer.effectPending
    /\ IF design = Null \/ ~viewer.scene
       THEN viewer' = [viewer EXCEPT !.effectPending = FALSE]
       ELSE \E result \in {generateMesh(design)} :
                viewer' =
                  IF result.thrown = ""
                  THEN [viewer EXCEPT !.effectPending = FALSE,
                                      !.mesh = result.mesh, !.error = Null]
                  ELSE [viewer EXCEPT !.effectPending = FALSE, !.mesh = Null,
                                      !.error = [message |-> "Failed to generate 3D model",
                                                 details |-> result.thrown]]
    /\ UNCHANGED <<call, ret, design, error, isLoading, fileRead, sampleLoad>>

Init ==
    /\ call = [op |-> "none"]
    /\ ret = Pending
    /\ AppInit

Next ==
    \/ \E file \in Files : HandleFileRead(file)
    \/ HandleFileReadSettled
    \/ \E ok \in BOOLEAN : SampleFetchSettled(ok)
    \/ \E options \in AppDocumentOptions : SampleTextResolved(options)
    \/ SampleTextRejected
    \/ HandleReset
    \/ \E webgl \in BOOLEAN : ViewerMount(webgl)
    \/ ViewerDesignEffect

Spec == Init /\ [][Next]_vars

(***************************************************************************)
(* Properties of the curve evaluator.                                      *)
(***************************************************************************)
Sampled == call.op = "generateBezierPoints" /\ ret.done

ControlPoints == call.bezier.control_points.points

\* both tangent polygons have at least as many points as the control polygon
SufficientTangents ==
    /\ Len(call.bezier.tangents_1.points) >= Len(ControlPoints)
    /\ Len(call.bezier.tangents_2.points) >= Len(ControlPoints)

AllDefined(points) == \A i \in 1..Len(points) : points[i] # Undefined

SamePosition(p, q) == p.x = q.x /\ p.y = q.y /\ p.z = q.z

\* p lies on the straight segment from a to b: p - a is parallel to b - a and
\* its projection on b - a lies between 0 and |b - a|^2
OnSegment(p, a, b) ==
    LET dx == Sub(b.x, a.x)  dy == Sub(b.y, a.y)  dz == Sub(b.z, a.z)
        ex == Sub(p.x, a.x)  ey == Sub(p.y, a.y)  ez == Sub(p.z, a.z)
        dot == Add(Add(Mul(ex, dx), Mul(ey, dy)), Mul(ez, dz))
        len2 == Add(Add(Mul(dx, dx), Mul(dy, dy)), Mul(dz, dz))
    IN  /\ IsFinite(p.x) /\ IsFinite(p.y) /\ IsFinite(p.z)
        /\ Sub(Mul(ex, dy), Mul(ey, dx)) = Int2Num(0)
        /\ Sub(Mul(ey, dz), Mul(ez, dy)) = Int2Num(0)
        /\ Sub(Mul(ez, dx), Mul(ex, dz)) = Int2Num(0)
        /\ Le(Int2Num(0), dot)
        /\ Le(dot, len2)

\* C3: with at least 2 control points and both tangent polygons at least as long
\* as the control polygon, generateBezierPoints returns exactly numPoints points
\* and every slot of the returned array holds a sample.
C3_CubicReturnsExactlyN ==
    (Sampled /\ Len(ControlPoints) >= 2 /\ SufficientTangents)
        => /\ Len(ret.value) = call.numPoints
           /\ AllDefined(ret.value)

\* a 3-segment cubic curve sampled with a budget of 2, smaller than its segment count
C3_Witness ==
    /\ Sampled /\ Len(ControlPoints) = 4 /\ SufficientTangents
    /\ call.numPoints = 2
    /\ Len(ret.value) = 2 /\ AllDefined(ret.value)

\* C4 as stated: with exactly 2 control points P0, P1, whatever the tangent
\* polygons hold, and numPoints >= 1, the numPoints returned points all lie on the
\* segment P0-P1, the first is P0 and the last is P1.
C4_AsStated ==
    (Sampled /\ Len(ControlPoints) = 2 /\ call.numPoints >= 1)
        => /\ Len(ret.value) = call.numPoints
           /\ \A i \in 1..Len(ret.value) :
                 OnSegment(ret.value[i], ControlPoints[1], ControlPoints[2])
           /\ SamePosition(ret.value[1], ControlPoints[1])
           /\ SamePosition(ret.value[Len(ret.value)], ControlPoints[2])

\* C4 amended: with exactly 2 control points P0, P1 and numPoints >= 2, the
\* numPoints returned points start at P0 and end at P1; they all lie on the
\* segment P0-P1 when a tangent polygon has fewer than 2 points.
C4_TwoPointCurve ==
    (Sampled /\ Len(ControlPoints) = 2 /\ call.numPoints >= 2)
        => /\ Len(ret.value) = call.numPoints
           /\ SamePosition(ret.value[1], ControlPoints[1])
           /\ SamePosition(ret.value[Len(ret.value)], ControlPoints[2])
           /\ ~SufficientTangents =>
                 \A i \in 1..Len(ret.value) :
                    OnSegment(ret.value[i], ControlPoints[1], ControlPoints[2])

\* a chord between two distinct control points sampled 3 times, without tangents
C4_Witness ==
    /\ Sampled /\ Len(ControlPoints) = 2 /\ ~SufficientTangents
    /\ ControlPoints[1] # ControlPoints[2]
    /\ call.numPoints = 3
    /\ OnSegment(ret.value[2], ControlPoints[1], ControlPoints[2])
    /\ ~SamePosition(ret.value[2], ControlPoints[1])

\* C5: with 0 or 1 control points generateBezierPoints returns the empty
\* sequence, whatever numPoints and the tangent polygons are.
C5_DegenerateIsEmpty ==
    (Sampled /\ Len(ControlPoints) < 2) => ret.value = <<>>

\* a single control point with a tangent handle in each set, budget 5
C5_Witness ==
    /\ Sampled /\ Len(ControlPoints) = 1 /\ SufficientTangents
    /\ call.numPoints = 5
    /\ ret.value = <<>>

\* the quadratic Bezier value of one coordinate at t = i / den, den > 0:
\* ((den-i)^2 a0 + 2 (den-i) i a1 + i^2 a2) / den^2
QuadraticAt(a0, a1, a2, i, den) ==
    Div(Add(Add(Mul(Int2Num((den - i) * (den - i)), a0),
                Mul(Int2Num(2 * (den - i) * i), a1)),
            Mul(Int2Num(i * i), a2)),
        Int2Num(den * den))

\* C6: with exactly 3 control points and a tangent polygon shorter than the
\* control polygon, sample i (0-based) is the quadratic Bezier value at
\* t = i / (numPoints - 1) in x, y, z and u (for numPoints = 1 that t is 0/0 and the
\* sample is NaN); (0,0), (50,20), (100,0) sampled 3 times give (0,0), (50,10),
\* (100,0).
C6_QuadraticSamples ==
    (Sampled /\ Len(ControlPoints) = 3 /\ ~SufficientTangents)
        => LET P0 == ControlPoints[1]
               P1 == ControlPoints[2]
               P2 == ControlPoints[3]
               den == call.numPoints - 1
           IN  /\ Len(ret.value) = call.numPoints
               /\ call.numPoints >= 2 =>
                    \A i \in 0..den :
                       /\ ret.value[i + 1].x = QuadraticAt(P0.x, P1.x, P2.x, i, den)
                       /\ ret.value[i + 1].y = QuadraticAt(P0.y, P1.y, P2.y, i, den)
                       /\ ret.value[i + 1].z = QuadraticAt(P0.z, P1.z, P2.z, i, den)
                       /\ ret.value[i + 1].u = QuadraticAt(P0.u, P1.u, P2.u, i, den)
               /\ call.numPoints = 1 =>
                    /\ IsNaN(ret.value[1].x) /\ IsNaN(ret.value[1].y)
                    /\ IsNaN(ret.value[1].z) /\ IsNaN(ret.value[1].u)
               /\ (/\ call.numPoints = 3
                   /\ <<P0.x, P0.y>> = <<Int2Num(0), Int2Num(0)>>
                   /\ <<P1.x, P1.y>> = <<Int2Num(50), Int2Num(20)>>
                   /\ <<P2.x, P2.y>> = <<Int2Num(100), Int2Num(0)>>)
                  => /\ <<ret.value[1].x, ret.value[1].y>> = <<Int2Num(0), Int2Num(0)>>
                     /\ <<ret.value[2].x, ret.value[2].y>> = <<Int2Num(50), Int2Num(10)>>
                     /\ <<ret.value[3].x, ret.value[3].y>> = <<Int2Num(100), Int2Num(0)>>

\* the outline (0,0), (50,20), (100,0) without tangents, sampled 3 times
C6_Witness ==
    /\ Sampled /\ Len(ControlPoints) = 3 /\ ~SufficientTangents
    /\ call.numPoints = 3
    /\ <<ControlPoints[1].x, ControlPoints[2].x, ControlPoints[3].x>>
          = <<Int2Num(0), Int2Num(50), Int2Num(100)>>
    /\ <<ret.value[2].x, ret.value[2].y>> = <<Int2Num(50), Int2Num(10)>>

\* the tangent polygons of the sampled curve
Tangents1 == call.bezier.tangents_1.points

Tangents2 == call.bezier.tangents_2.points

\* the segmented cases: k = count - 1 segments share the budget numPoints
Segments == Len(ControlPoints) - 1

PerSegment == call.numPoints \div Segments

\* the samples of segment seg (0-based): floor(n / k), the last taking the rest
SamplesIn(seg) ==
    IF seg = Segments - 1 THEN call.numPoints - (Segments - 1) * PerSegment
    ELSE PerSegment

\* the segment holding sample k (0-based) and the rank of k within it
SegmentOf(k) ==
    IF PerSegment = 0 \/ k \div PerSegment > Segments - 1 THEN Segments - 1
    ELSE k \div PerSegment

RankOf(k) == k - SegmentOf(k) * PerSegment

\* the parameter of sample k: rank / (m - 1) in a segment of m > 1 samples, else 0
ParamOf(k) ==
    IF SamplesIn(SegmentOf(k)) > 1
    THEN Div(Int2Num(RankOf(k)), Int2Num(SamplesIn(SegmentOf(k)) - 1))
    ELSE Int2Num(0)

\* the samples each case of the evaluator yields for the sampled curve
CaseSamples(case) ==
    [i \in 1..call.numPoints |->
        CASE case = "cubic" ->
               evaluateCubicBezier(ControlPoints[SegmentOf(i - 1) + 1],
                                   Tangents2[SegmentOf(i - 1) + 1],
                                   Tangents1[SegmentOf(i - 1) + 2],
                                   ControlPoints[SegmentOf(i - 1) + 2], ParamOf(i - 1))
          [] case = "quadratic" ->
               evaluateQuadraticBezier(ControlPoints[1], ControlPoints[2], ControlPoints[3],
                                       Div(Int2Num(i - 1), Int2Num(call.numPoints - 1)))
          [] case = "linear" ->
               evaluateLinear(ControlPoints[1], ControlPoints[2],
                              Div(Int2Num(i - 1), Int2Num(call.numPoints - 1)))
          [] OTHER ->
               evaluateLinear(ControlPoints[SegmentOf(i - 1) + 1],
                              ControlPoints[SegmentOf(i - 1) + 2], ParamOf(i - 1))]

\* C13: when both tangent polygons have at least as many points as the control
\* polygon the per-segment cubic case is used, also for exactly 2 or 3 control
\* points; the quadratic (3 points), linear (2 points) and polyline (more than 3)
\* cases are used only when a tangent polygon has fewer points.
C13_TangentsDecideBeforeCount ==
    (Sampled /\ Len(ControlPoints) >= 2)
        => ret.value = CaseSamples(IF SufficientTangents THEN "cubic"
                                   ELSE IF Len(ControlPoints) = 3 THEN "quadratic"
                                   ELSE IF Len(ControlPoints) = 2 THEN "linear"
                                   ELSE "polyline")

\* 3 control points with full tangent sets, sampled 3 times: the middle sample is
\* the junction of the two cubic segments, not the quadratic's midpoint
C13_Witness ==
    /\ Sampled /\ Len(ControlPoints) = 3 /\ SufficientTangents
    /\ call.numPoints = 3
    /\ ret.value = CaseSamples("cubic")
    /\ ret.value # CaseSamples("quadratic")

\* C14: in the cubic and polyline cases, with k = count - 1 segments and a budget
\* of n samples, each of the first k - 1 segments receives floor(n / k) samples and
\* the last receives n - (k - 1) * floor(n / k); sample j of a segment of m samples
\* is evaluated at t = j / (m - 1) when m > 1 and at t = 0 when m = 1.
C14_BudgetPerSegment ==
    (Sampled /\ Len(ControlPoints) >= 2 /\ (SufficientTangents \/ Len(ControlPoints) > 3))
        => /\ Len(ret.value) = call.numPoints
           /\ \A k \in 0..(call.numPoints - 1) :
                 ret.value[k + 1] =
                    segmentSample(ControlPoints, Tangents1, Tangents2, SufficientTangents,
                                  SegmentOf(k), ParamOf(k))

\* 4 control points without tangents: a polyline of 3 segments sampled 5
\* times: 1, 1 and 3 samples, the last segment at t = 0, 1/2, 1
C14_Witness ==
    /\ Sampled /\ Len(ControlPoints) = 4 /\ ~SufficientTangents
    /\ call.numPoints = 5
    /\ ControlPoints[3] # ControlPoints[4]
    /\ <<SegmentOf(0), SegmentOf(1), SegmentOf(2), SegmentOf(4)>> = <<0, 1, 2, 2>>
    /\ ParamOf(3) = Num(1, 2)
    /\ ret.value[4] = evaluateLinear(ControlPoints[3], ControlPoints[4], Num(1, 2))
    /\ SamePosition(ret.value[5], ControlPoints[4])

\* C15 as stated: in the cubic case segment i is the cubic with control polygon
\* (control[i], tangents_1[i], tangents_2[i + 1], control[i + 1]).
C15_AsStated ==
    (Sampled /\ Len(ControlPoints) >= 2 /\ SufficientTangents)
        => \A k \in 0..(call.numPoints - 1) :
              ret.value[k + 1] =
                 evaluateCubicBezier(ControlPoints[SegmentOf(k) + 1],
                                     Tangents1[SegmentOf(k) + 1],
                                     Tangents2[SegmentOf(k) + 2],
                                     ControlPoints[SegmentOf(k) + 2], ParamOf(k))

\* C15 amended: in the cubic case segment i is the cubic with control polygon
\* (control[i], tangents_2[i], tangents_1[i + 1], control[i + 1]): the outgoing
\* handle comes from the second tangent set, the incoming one from the first.
C15_SecondSetLeavesFirstSetArrives ==
    (Sampled /\ Len(ControlPoints) >= 2 /\ SufficientTangents)
        => \A k \in 0..(call.numPoints - 1) :
              ret.value[k + 1] =
                 evaluateCubicBezier(ControlPoints[SegmentOf(k) + 1],
                                     Tangents2[SegmentOf(k) + 1],
                                     Tangents1[SegmentOf(k) + 2],
                                     ControlPoints[SegmentOf(k) + 2], ParamOf(k))

\* one cubic segment sampled 3 times: its middle sample blends both handles
C15_Witness ==
    /\ Sampled /\ Len(ControlPoints) = 2 /\ SufficientTangents
    /\ call.numPoints = 3
    /\ ret.value[2] = evaluateCubicBezier(ControlPoints[1], Tangents2[1], Tangents1[2],
                                          ControlPoints[2], Num(1, 2))
    /\ ret.value[2] # evaluateCubicBezier(ControlPoints[1], Tangents1[1], Tangents2[2],
                                          ControlPoints[2], Num(1, 2))

Mirrored == call.op = "mirrorCrossSectionPoints" /\ ret.done

OnCenterline(p) == Lt(MathAbs(p.y), Num(1, 1000))

\* the points h[from..Len(h)] in reverse order, each with its y negated
Reflected(h, from) ==
    [i \in 1..(Len(h) - from + 1) |-> [h[Len(h) - i + 1] EXCEPT !.y = Neg(@)]]

\* C16: for a non-empty half profile h with no negative y, mirrorCrossSectionPoints
\* returns h followed by the y-negated copies of h's points in reverse order,
\* leaving out of the reflected part only h's first point when it lies on the
\* centerline; the result has 2|h| - 1 points in that case and 2|h| otherwise.
C16_HalfProfileIsReflected ==
    (Mirrored /\ Len(call.halfPoints) >= 1
       /\ \A i \in 1..Len(call.halfPoints) : Le(Int2Num(0), call.halfPoints[i].y))
        => IF OnCenterline(call.halfPoints[1])
           THEN /\ ret.value = call.halfPoints \o Reflected(call.halfPoints, 2)
                /\ Len(ret.value) = 2 * Len(call.halfPoints) - 1
           ELSE /\ ret.value = call.halfPoints \o Reflected(call.halfPoints, 1)
                /\ Len(ret.value) = 2 * Len(call.halfPoints)

\* a half profile from the centerline out to y = 5 and back to y = 1/2000: 5 points
C16_Witness ==
    /\ Mirrored /\ Len(call.halfPoints) = 3
    /\ call.halfPoints[1].y = Int2Num(0)
    /\ call.halfPoints[2].y = Int2Num(5)
    /\ call.halfPoints[3].y = Num(1, 2000)
    /\ Len(ret.value) = 5
    /\ ret.value[4].y = Num(-1, 2000) /\ ret.value[5].y = Int2Num(-5)

\* the curve is sampled segment by segment: the cubic case and the polyline case
PerSegmentCase == SufficientTangents \/ Len(ControlPoints) > 3

\* C28 as stated: with at least 2 control points and numPoints >= 2, in all four
\* cases, the first returned point is at the first control point and the last at
\* the last control point, also when numPoints is at most the number of segments.
C28_AsStated ==
    (Sampled /\ Len(ControlPoints) >= 2 /\ call.numPoints >= 2) =>
        /\ SamePosition(ret.value[1], ControlPoints[1])
        /\ SamePosition(ret.value[Len(ret.value)], ControlPoints[Len(ControlPoints)])

\* C28 amended: the same, provided that in the two cases sampled segment by
\* segment numPoints is greater than the number of segments.
C28_EndpointsWhenBudgetExceedsSegments ==
    (/\ Sampled /\ Len(ControlPoints) >= 2 /\ call.numPoints >= 2
     /\ PerSegmentCase => call.numPoints > Len(ControlPoints) - 1) =>
        /\ Len(ret.value) = call.numPoints
        /\ SamePosition(ret.value[1], ControlPoints[1])
        /\ SamePosition(ret.value[Len(ret.value)], ControlPoints[Len(ControlPoints)])

\* a cubic curve of 3 segments between distinct ends sampled 4 times
C28_Witness ==
    /\ Sampled /\ Len(ControlPoints) = 4 /\ SufficientTangents
    /\ call.numPoints = 4
    /\ ~SamePosition(ControlPoints[1], ControlPoints[4])
    /\ ~SamePosition(ControlPoints[3], ControlPoints[4])
    /\ SamePosition(ret.value[1], ControlPoints[1])
    /\ SamePosition(ret.value[4], ControlPoints[4])

Interpolated == call.op = "interpolateZAtX" /\ ret.done

NonDecreasingX(points) ==
    \A i \in 1..(Len(points) - 1) : Le(points[i].x, points[i + 1].x)

\* C8 as stated: on any non-empty polyline a query below the first sample's x
\* returns the first sample's z and a query above the last sample's x returns the
\* last sample's z.
C8_AsStated ==
    (Interpolated /\ Len(call.points) >= 1)
        => /\ Lt(call.x, call.points[1].x) => ret.value = call.points[1].z
           /\ Lt(call.points[Len(call.points)].x, call.x)
                 => ret.value = call.points[Len(call.points)].z

\* C8 amended: on a non-empty polyline whose x never decreases from one sample to
\* the next, a query below the first sample's x returns the first sample's z and a
\* query above the last sample's x returns the last sample's z.
C8_ClampsOnMonotonic ==
    (Interpolated /\ Len(call.points) >= 1 /\ NonDecreasingX(call.points))
        => /\ Lt(call.x, call.points[1].x) => ret.value = call.points[1].z
           /\ Lt(call.points[Len(call.points)].x, call.x)
                 => ret.value = call.points[Len(call.points)].z

\* a rising 3-sample polyline with different end heights queried below its start
C8_Witness ==
    /\ Interpolated /\ Len(call.points) = 3 /\ NonDecreasingX(call.points)
    /\ Lt(call.points[1].x, call.points[3].x)
    /\ call.points[1].z # call.points[3].z
    /\ Lt(call.x, call.points[1].x)
    /\ ret.value = call.points[1].z

\* C29 as stated: on a non-empty polyline interpolateZAtX returns a number between
\* the least and the greatest z of the samples, for every query x; in particular
\* when two consecutive samples share the x that is queried.
C29_AsStated ==
    (Interpolated /\ Len(call.points) >= 1) =>
        /\ IsFinite(ret.value)
        /\ \E i, k \in 1..Len(call.points) :
              Le(call.points[i].z, ret.value) /\ Le(ret.value, call.points[k].z)

(***************************************************************************)
(* Properties of the decoder.                                              *)
(***************************************************************************)
\* the decoder has returned from a call on a document with root and Board
DecodedDesign ==
    call.op = "parseS3DX" /\ ret.done /\ call.options.root /\ call.options.board

\* C11: for every document with the root element and a Board, parseS3DX returns a
\* design and logs no error, whichever of Scene, Lighting, Camera, View, the
\* curves, the symmetry centers and a cross-section's Bezier3d are missing and
\* whichever scalar fields are missing or not numbers; what is missing decodes to
\* its default.
C11_OptionalPartsNeverFail ==
    DecodedDesign =>
        /\ ret.value.value # Null
        /\ ret.value.logged = ""
        /\ Len(ret.value.value.board.couples) = call.options.couples
        /\ call.options.shape = "noCurves" =>
              /\ ret.value.value.board.otl.control_points.points = <<>>
              /\ ret.value.value.board.str_bot.tangents_1.points = <<>>
        /\ call.options.shape = "noSymmetryCenter" =>
              /\ ret.value.value.board.otl.control_points.symmetry_center = ZeroPoint
              /\ Len(ret.value.value.board.otl.control_points.points) = 3
        /\ (call.options.shape = "noCoupleBezier" /\ call.options.couples > 0) =>
              ret.value.value.board.couples[1].bezier.control_points.points = <<>>
        /\ call.options.shape = "badScalars" =>
              /\ ret.value.value.board.version = 0
              /\ ret.value.value.board.length = Int2Num(0)
              /\ ret.value.value.board.width = Int2Num(0)
              /\ ret.value.value.board.thickness = Int2Num(6)
        /\ call.options.scene \in {"bare", "lighting"} =>
              ret.value.value.scene.camera = defaultCamera
        /\ call.options.scene \in {"bare", "noView"} =>
              ret.value.value.scene.lighting = defaultLighting
        /\ call.options.scene = "noView" =>
              ret.value.value.scene.camera.view = defaultView

\* a document with garbled Board scalars and a Scene holding only a Camera
\* without View has been decoded into a design
C11_Witness ==
    /\ DecodedDesign
    /\ call.options.shape = "badScalars"
    /\ call.options.scene = "noView"
    /\ call.options.couples = 2
    /\ ret.value.value # Null
    /\ ret.value.value.board.thickness = Int2Num(6)
    /\ ret.value.value.scene.camera.view = defaultView

\* C9: decoding a document that has the root and a Board but no Scene yields a
\* design whose scene is the literal default: version 1.0, lighting version 9
\* with intensity 0.8, camera version 1.2 placed at z = -361.95 with the default
\* view.
C9_MissingSceneIsLiteralDefault ==
    (DecodedDesign /\ call.options.scene = "none") =>
        /\ ret.value.value # Null
        /\ ret.value.value.scene.camera.ccam.z = Num(-36195, 100)
        /\ ret.value.value.scene.lighting.intensity = Num(8, 10)
        /\ ret.value.value.scene =
             [version |-> Int2Num(1), background_color |-> 0, reflexion_map |-> <<>>,
              display_sky_box |-> 0,
              lighting |->
                 [version |-> Int2Num(9),
                  ecl |-> [x |-> Int2Num(0), y |-> Num(-208287, 100),
                           z |-> Num(-208287, 100), u |-> Int2Num(-1), color |-> 0],
                  color |-> 16777215, color_spot |-> 16777215,
                  intensity |-> Num(8, 10), intensity2 |-> Num(625, 1000),
                  intensity_ambient |-> Num(475, 1000), intensity_spec |-> Int2Num(1)],
              camera |->
                 [version |-> Num(12, 10), alpha |-> Int2Num(0),
                  dim_obj |-> Num(208287, 1000),
                  crot |-> [x |-> Int2Num(0), y |-> Int2Num(0), z |-> Int2Num(0),
                            u |-> Int2Num(-1), color |-> 0],
                  cvis |-> [x |-> Int2Num(0), y |-> Int2Num(0), z |-> Int2Num(0),
                            u |-> Int2Num(-1), color |-> 0],
                  ccam |-> [x |-> Int2Num(0), y |-> Int2Num(0), z |-> Num(-36195, 100),
                            u |-> Int2Num(-1), color |-> 0],
                  oy |-> [x |-> Int2Num(0), y |-> Int2Num(1), z |-> Int2Num(0),
                          u |-> Int2Num(-1), color |-> 0],
                  ur |-> [x |-> Int2Num(0), y |-> Int2Num(0), z |-> Int2Num(1),
                          u |-> Int2Num(-1), color |-> 0],
                  view |->
                     [version |-> Num(12, 10), wh |-> Int2Num(865), ww |-> Int2Num(1896),
                      wox |-> Int2Num(0), woy |-> Int2Num(0), uh |-> Int2Num(0),
                      uw |-> Int2Num(0), uxmin |-> Int2Num(0), uymin |-> Int2Num(0),
                      cxy |-> Int2Num(0), mrgx |-> Int2Num(0), mrgy |-> Int2Num(0),
                      police |-> <<"M", "S", " ", "S", "a", "n", "s", " ", "S", "e",
                                   "r", "i", "f">>,
                      over_sample |-> 1, grid |-> Int2Num(10)]]]

\* a document with root, Board and cross-sections but no Scene has been decoded
\* and its camera stands at z = -361.95
C9_Witness ==
    /\ DecodedDesign
    /\ call.options.scene = "none"
    /\ call.options.couples > 0
    /\ ret.value.value.scene.camera.ccam.z = Num(-36195, 100)

\* the number a volume field spells, for the numeric fields of the documents
RawVolume(field) ==
    CASE field = Present(<<"1", "5", "0", "0">>) -> Int2Num(1500)
      [] field = Present(<<"4", "2", "5", "0", ".", "5">>) -> Num(42505, 10)
      [] field = Present(<<"-", "3", "0">>) -> Int2Num(-30)
      [] field = Present(<<" ", "7", "5", " ">>) -> Int2Num(75)
      [] field = Present(<<"6", "2", ".", "5">>) -> Num(625, 10)

IsNumericField(field) == field.present /\ field # Present(<<"a", "b", "c">>)

\* C10: the decoded volume, volume_tail and volume_nose of a board are the
\* numbers their fields spell divided by 100 (a hundred times the decoded value
\* is the raw number); a Volume of 1500 decodes to 15.
C10_VolumeIsRawOver100 ==
    DecodedDesign =>
        /\ ret.value.value # Null
        /\ IsNumericField(call.options.volume) =>
              Mul(ret.value.value.board.volume, Int2Num(100)) = RawVolume(call.options.volume)
        /\ IsNumericField(call.options.volumeTail) =>
              Mul(ret.value.value.board.volume_tail, Int2Num(100))
                 = RawVolume(call.options.volumeTail)
        /\ IsNumericField(call.options.volumeNose) =>
              Mul(ret.value.value.board.volume_nose, Int2Num(100))
                 = RawVolume(call.options.volumeNose)
        /\ call.options.volume = Present(<<"1", "5", "0", "0">>) =>
              ret.value.value.board.volume = Int2Num(15)

\* a board with Volume 1500, VolumeTail 1500 and VolumeNose 62.5 has been decoded
\* to volume 15, volume_tail 15 and volume_nose 0.625
C10_Witness ==
    /\ DecodedDesign
    /\ call.options.volume = Present(<<"1", "5", "0", "0">>)
    /\ call.options.volumeTail = Present(<<"1", "5", "0", "0">>)
    /\ call.options.volumeNose = Present(<<"6", "2", ".", "5">>)
    /\ ret.value.value.board.volume = Int2Num(15)
    /\ ret.value.value.board.volume_tail = Int2Num(15)
    /\ ret.value.value.board.volume_nose = Num(625, 1000)

\* the index suffix of the k-th Couples_ child of the Board, in document order
DeclaredIndex(k) ==
    IF call.options.shape = "shuffledCouples" THEN call.options.couples - k ELSE k - 1

\* C24: board.couples holds the Board's immediate Couples_ children in document
\* order: as many as there are, whatever Number_of_slices says, an element nested
\* deeper left out, and a descending declaration order kept as it is.
C24_CouplesInDocumentOrder ==
    DecodedDesign =>
        /\ ret.value.value # Null
        /\ Len(ret.value.value.board.couples) = call.options.couples
        /\ \A k \in 1..Len(ret.value.value.board.couples) :
              IF call.options.shape = "noCoupleBezier" /\ DeclaredIndex(k) = 0
              THEN ret.value.value.board.couples[k].bezier.control_points.points = <<>>
              ELSE /\ Len(ret.value.value.board.couples[k].bezier.control_points.points) = 3
                   /\ ret.value.value.board.couples[k].bezier.control_points.points[1].x
                         = Int2Num(60 * (DeclaredIndex(k) + 1))
        /\ ret.value.value.board.number_of_slices =
              (IF call.options.shape = "shuffledCouples" THEN 7 ELSE call.options.couples)

\* two cross-sections declared as Couples_1 then Couples_0 under a count of 7 and
\* beside a nested Couples_ element have been decoded in that order
C24_Witness ==
    /\ DecodedDesign
    /\ call.options.shape = "shuffledCouples"
    /\ call.options.couples = 2
    /\ ret.value.value # Null
    /\ Len(ret.value.value.board.couples) = 2
    /\ ret.value.value.board.couples[1].bezier.control_points.points[1].x = Int2Num(120)
    /\ ret.value.value.board.couples[2].bezier.control_points.points[1].x = Int2Num(60)
    /\ ret.value.value.board.number_of_slices = 7

\* C25 as stated: a field the record does not have as its own decodes to the
\* default even when a nested record has an element of that name: a Board without
\* Name whose curves are named has the name '', a Scene without Version whose
\* Lighting has one has the version 0.
C25_AsStated ==
    (DecodedDesign /\ ret.value.value # Null) =>
        /\ call.options.shape = "nestedNames" => ret.value.value.board.name = <<>>
        /\ call.options.scene = "unversioned" =>
              ret.value.value.scene.version = Int2Num(0)

(***************************************************************************)
(* Properties of the S-Linear mesh generator.                              *)
(***************************************************************************)
MeshRequested == call.op = "generateMeshSLinearInterpolation" /\ ret.done

\* a mesh has been returned, no error thrown
MeshGenerated == MeshRequested /\ ret.value.thrown = ""

VertexCount == (uSteps + 1) * (vSteps + 1)

\* the render position of the vertex at offset i * (vSteps + 1) + j
VertexAt(i, j) ==
    <<ret.value.vertices[3 * (i * (vSteps + 1) + j) + 1],
      ret.value.vertices[3 * (i * (vSteps + 1) + j) + 2],
      ret.value.vertices[3 * (i * (vSteps + 1) + j) + 3]>>

\* the source x of row i, read back from its first vertex
RowX(i) == Mul(VertexAt(i, 0)[1], Int2Num(100))

\* row i is a single point on the centerline
SinglePoint(i) ==
    /\ \A j \in 0..vSteps : VertexAt(i, j) = VertexAt(i, 0)
    /\ VertexAt(i, 0)[3] = Int2Num(0)

\* C12 as stated: for every board with at least one cross-section the S-Linear
\* mesh has exactly (U+1)*(V+1) vertices, vertex (i, j) at offset i*(V+1)+j (the
\* vertices of row i all carrying the x of row i), exactly 6*U*V indices, and
\* every index within 0 .. (U+1)*(V+1)-1.
C12_AsStated ==
    (MeshRequested /\ Len(call.design.board.couples) >= 1)
        => /\ ret.value.thrown = ""
           /\ Len(ret.value.vertices) = 3 * VertexCount
           /\ Len(ret.value.indices) = 6 * uSteps * vSteps
           /\ \A k \in 1..Len(ret.value.indices) :
                 ret.value.indices[k] \in 0..(VertexCount - 1)
           /\ Let(surfaceBounds(call.design.board),
                  LAMBDA bounds :
                     \A i \in 0..uSteps :
                        Let(Mul(rowPosition(bounds, i), Num(1, 100)),
                            LAMBDA x : \A j \in 0..vSteps : VertexAt(i, j)[1] = x))

\* C18: in every row whose width is below the collapse epsilon 0.1 all V+1
\* vertices are the same point, the source position (x, 0, rocker at x + half the
\* thickness at x), rendered at (x/100, z/100, 0).
C18_CollapsedRowIsOnePoint ==
    MeshGenerated =>
        \A i \in 0..uSteps :
           Let(RowX(i),
               LAMBDA x :
                  Lt(getWidthAtX(call.design.board, x), Num(1, 10)) =>
                     Let(<<Mul(x, Num(1, 100)),
                           Mul(Add(getBottomAtX(call.design.board, x),
                                   Mul(getThicknessAtX(call.design.board, x), Num(1, 2))),
                               Num(1, 100)),
                           Int2Num(0)>>,
                         LAMBDA vertex : \A j \in 0..vSteps : VertexAt(i, j) = vertex))

\* the first row of the regular board lies 2 before the outline, where the width
\* is 0: its 33 vertices sit at (-0.02, 0.03, 0), the bottom being 0 there and the
\* thickness 6
C18_Witness ==
    /\ MeshGenerated
    /\ call.design.board = RegularBoard
    /\ RowX(0) = Int2Num(-2)
    /\ getWidthAtX(RegularBoard, Int2Num(-2)) = Int2Num(0)
    /\ \A j \in 0..vSteps : VertexAt(0, j) = <<Num(-2, 100), Num(3, 100), Int2Num(0)>>
    /\ ~SinglePoint(1)

\* C19 as stated: for every board with at least one cross-section the first row
\* (i = 0) and the last row (i = U) of the generated surface are each collapsed
\* to a single centerline point.
C19_AsStated ==
    (MeshGenerated /\ Len(call.design.board.couples) >= 1)
        => SinglePoint(0) /\ SinglePoint(uSteps)

\* the gap between row i and row i + 1
Gap(i) == Sub(RowX(i + 1), RowX(i))

WidthQueried == call.op = "getWidthAtX" /\ ret.done

\* the x of the samples of the outline of the queried board
OutlineXs ==
    Let(asArray(generateBezierPoints(call.board.otl, outlineSamples)),
        LAMBDA halfOutline : {halfOutline[i].x : i \in 1..Len(halfOutline)})

\* C17 as stated: for a board whose outline has samples, getWidthAtX returns 0
\* for every x below the least or above the greatest x of the samples.
C17_AsStated ==
    (WidthQueried /\ OutlineXs # {}
       /\ (Lt(call.x, spreadMin(OutlineXs)) \/ Lt(spreadMax(OutlineXs), call.x)))
        => ret.value = Int2Num(0)

\* C17 amended: for a board whose outline has samples, getWidthAtX returns 0 for
\* every x at least 2 below the least or at least 2 above the greatest x of the
\* samples.
C17_ZeroBeyondTolerance ==
    (WidthQueried /\ OutlineXs # {}
       /\ (Le(call.x, Sub(spreadMin(OutlineXs), Int2Num(2)))
           \/ Le(Add(spreadMax(OutlineXs), Int2Num(2)), call.x)))
        => ret.value = Int2Num(0)

\* the wedge is 398 wide at its open end x = 796; queried at x = 798 its width is 0
C17_Witness ==
    /\ WidthQueried
    /\ call.board = WedgeBoard
    /\ call.x = Int2Num(798)
    /\ spreadMax(OutlineXs) = Int2Num(796)
    /\ getWidthAtX(WedgeBoard, Int2Num(796)) = Int2Num(398)
    /\ ret.value = Int2Num(0)

\* a cross-section query has returned
CrossSectionQueried == call.op = "getInterpolatedCrossSection" /\ ret.done

\* the declared cross-sections (1-based) whose first control point exists, and the
\* x of that point
Anchored == {k \in 1..Len(call.board.couples) :
                Len(call.board.couples[k].bezier.control_points.points) > 0}

Anchor(k) == call.board.couples[k].bezier.control_points.points[1].x

\* C21: the bracket search picks as previous a cross-section anchored at or below x
\* and as next one anchored at or above x whenever there is one, whatever the
\* declaration order; without one at or above x the next is the last declared,
\* and without one at or below x the previous is index 0.
C21_AsStated ==
    (CrossSectionQueried /\ ret.value.thrown = "") =>
        /\ (\E k \in Anchored : Le(Anchor(k), call.x)) =>
              /\ ret.value.prevIdx + 1 \in Anchored
              /\ Le(Anchor(ret.value.prevIdx + 1), call.x)
        /\ (\E k \in Anchored : Le(call.x, Anchor(k))) =>
              /\ ret.value.nextIdx + 1 \in Anchored
              /\ Le(call.x, Anchor(ret.value.nextIdx + 1))
        /\ (~ \E k \in Anchored : Le(call.x, Anchor(k))) =>
              ret.value.nextIdx = Len(call.board.couples) - 1
        /\ (~ \E k \in Anchored : Le(Anchor(k), call.x)) => ret.value.prevIdx = 0

\* a profile has been scaled
ProfileScaled == call.op = "generateScaledCrossSection" /\ ret.done

\* the sampled and mirrored profile of the cross-section being scaled
BasePoints ==
    asArray(mirrorCrossSectionPoints(
                asArray(generateBezierPoints(call.couple.bezier, profileSamples))))

\* the least and the greatest of the numbers
Spans(values, low, high) ==
    /\ low \in values
    /\ high \in values
    /\ \A v \in values : Le(low, v) /\ Le(v, high)

\* the profile being scaled has positive bounding width and thickness
PositiveBox ==
    Let(BasePoints,
        LAMBDA base :
          /\ Len(base) > 0
          /\ \E i, k \in 1..Len(base) : Lt(base[i].y, base[k].y)
          /\ \E i, k \in 1..Len(base) : Lt(base[i].z, base[k].z))

\* C22: a profile of positive width and thickness scaled to the width W and the
\* thickness T > 0 has y spanning exactly -W/2 .. W/2 and z spanning exactly
\* -T/2 .. T/2.
C22_AsStated ==
    (ProfileScaled /\ PositiveBox /\ Lt(Int2Num(0), call.targetThickness)) =>
        /\ Spans({ret.value[i].y : i \in 1..Len(ret.value)},
                 Neg(Mul(call.targetWidth, Num(1, 2))), Mul(call.targetWidth, Num(1, 2)))
        /\ Spans({ret.value[i].z : i \in 1..Len(ret.value)},
                 Neg(Mul(call.targetThickness, Num(1, 2))),
                 Mul(call.targetThickness, Num(1, 2)))

\* the offset of vertex (a, b) and the column after b around the ring
VertexOffset(a, b) == a * (vSteps + 1) + b

NextColumn(j) == IF j < vSteps - 1 THEN j + 1 ELSE 0

\* the six indices emitted for the quad (i, j)
QuadIndices(i, j) ==
    SubSeq(ret.value.indices, 6 * (i * vSteps + j) + 1, 6 * (i * vSteps + j) + 6)

\* C23: for every quad (i, j) the index buffer holds exactly the two triangles
\* (v(i,j), v(i+1,j), v(i,j')) and (v(i,j'), v(i+1,j), v(i+1,j')), j' being j + 1
\* and, in the last column, 0; nothing else is emitted.
C23_TwoTrianglesPerQuadWithWrap ==
    MeshGenerated =>
        /\ Len(ret.value.indices) = 6 * uSteps * vSteps
        /\ \A i \in 0..(uSteps - 1), j \in 0..(vSteps - 1) :
              QuadIndices(i, j) =
                  <<VertexOffset(i, j), VertexOffset(i + 1, j),
                    VertexOffset(i, NextColumn(j)),
                    VertexOffset(i, NextColumn(j)), VertexOffset(i + 1, j),
                    VertexOffset(i + 1, NextColumn(j))>>

\* a mesh whose last column of row 0 is joined to column 0 of rows 0 and 1
C23_Witness ==
    /\ MeshGenerated
    /\ QuadIndices(0, vSteps - 1) =
          <<vSteps - 1, 2 * vSteps, 0, 0, 2 * vSteps, vSteps + 1>>

\* C26 as stated: for every board with at least one cross-section the synthesis
\* of the mesh, and of the profile at any position, completes without an error,
\* degenerate cross-sections included.
C26_AsStated ==
    /\ (MeshRequested /\ Len(call.design.board.couples) >= 1) => ret.value.thrown = ""
    /\ CrossSectionQueried => ret.value.thrown = ""

\* C27 as stated: whenever a blended profile is built for a board with at least
\* one cross-section, the blend factor t lies in 0 .. 1.
C27_AsStated ==
    (CrossSectionQueried /\ ret.value.thrown = "") =>
        /\ Le(Int2Num(0), ret.value.t)
        /\ Le(ret.value.t, Int2Num(1))

(***************************************************************************)
(* Properties of the application shell.                                    *)
(***************************************************************************)
\* a file read has completed on a readable .s3dx file
FileDecoded == fileRead.outcome # Null /\ fileRead.outcome.read

\* the content of the file last read lacks the root element or the Board
LacksRootOrBoard ==
    ~fileRead.outcome.file.options.root \/ ~fileRead.outcome.file.options.board

MeshRequestedWithoutCouples ==
    /\ viewer.mounted
    /\ viewer.scene
    /\ ~viewer.effectPending
    /\ design # Null
    /\ design.board.couples = <<>>

UserDesignShown ==
    /\ design # Null
    /\ fileRead.pc = "idle"
    /\ fileRead.outcome # Null
    /\ fileRead.outcome.callback = "onFileLoaded"
    /\ design = fileRead.outcome.parsed

\* C30 as stated: whatever the interleaving of the sample auto-load with the
\* user's actions, the completion of the auto-load leaves a design set by the
\* user's own file load in place.
C30_AsStated ==
    [][(UserDesignShown /\ sampleLoad.pc = "reading" /\ sampleLoad'.pc = "done")
          => design' = design]_vars

====
